---- MODULE Spec2Model ----
(***************************************************************************)
(* Verification model of the PBX portal core:                              *)
(*   - the apply orchestrator (EnhancedApplyService.apply_configuration_   *)
(*     safe and the legacy ApplyService.apply_configuration), serialized   *)
(*     by the PostgreSQL advisory lock APPLY_LOCK_ID;                      *)
(*   - the extension cursor of a tenant (Tenant.get_next_extension);       *)
(*   - the DID life cycle (DIDService).                                    *)
(*                                                                         *)
(* Modelling assumptions of the apply part: every apply attempt runs on    *)
(* its own database session, and the advisory lock is owned by that        *)
(* session from pg_try_advisory_lock until pg_advisory_unlock.  Unexpected *)
(* exceptions are injected at the validation, load, generation, write and  *)
(* reload steps; the statements that commit the job record are assumed to  *)
(* succeed.                                                                *)
(***************************************************************************)
EXTENDS Integers, Sequences, FiniteSets, Bags, TLC

(***************************************************************************)
(* Bounds                                                                  *)
(***************************************************************************)
\* number of concurrent request workers issuing apply requests
NumWorkers == 2
\* number of distinct database contents (1..MaxDb) an apply can load
MaxDb == 2
\* backup directories are named by a timestamp of one-second resolution
MaxClock == 1

\* number of tenants (a tenant's id also stands for its unique name)
NumTenants == 2
\* largest extension number a tenant is created with
MaxExt == 1002
\* allocation requests made to a tenant beyond the size of its pool
MaxExtraRequests == 2
\* number of concurrent user-creation requests
NumRequests == 2
\* number of phone numbers the DID calls are made with
NumDids == 2
\* largest number of items in one import request
MaxBatch == 2
\* largest number of blocks in the content of a file
MaxLen == 2
\* number of DID requests in progress at once
NumSessions == 2
\* largest number of users in the snapshot given to the generator
MaxSnapshotUsers == 2
\* largest number of DID assignments an apply loads
MaxSnapshotDids == 1
\* largest number of rows of table audit_logs the DID calls write
MaxAuditLogs == 5
\* how many numbers the range EXTENSION_MIN .. EXTENSION_MAX holds
MaxPool == 2
\* how many users ask allocate_extension for a number
NumScanUsers == 2

Workers == 1..NumWorkers
Timestamps == 0..MaxClock
TenantIds == 1..NumTenants
Requests == 1..NumRequests
DidIds == 1..NumDids

(***************************************************************************)
(* Values                                                                  *)
(***************************************************************************)
\* ApplyService.APPLY_LOCK_ID
APPLY_LOCK_ID == 123456789

\* Python None for text columns, timestamps, paths
NoText == "<None>"
NoTime == -1
\* a job timestamp that has been set (the value of utcnow() is not kept)
SomeTime == 0
NoPath == -1
\* a file that does not exist / a backup directory that does not exist
NoFile == -1
NoDir == -2
\* nobody holds the advisory lock
NoSession == 0
\* no row in table tenants / no Tenant object loaded
NoTenant == [ext_min |-> 0, ext_max |-> 0, ext_next |-> 0]
\* extension_number not assigned yet
NoExtension == 0
\* no user_id
NoUser == 0
\* tenant_id IS NULL / assigned_id IS NULL / assigned_value IS NULL
NoTenantId == 0
NoTarget == 0
NoValue == "<None>"
\* no row in table phone_numbers
NoPhone == [status |-> "NONE", tenant_id |-> NoTenantId]
\* the arguments a DID call does not have
NoCall == [op |-> "none", id |-> 0, tenant_id |-> NoTenantId,
           assigned_type |-> "none", assigned_id |-> NoTarget,
           assigned_value |-> NoValue]
\* a file of the target directory that does not exist
Absent == <<"ENOENT">>
\* the arguments of a DID call before any call was made
NoArgs == [call |-> NoCall, dids |-> <<>>]
\* the outcome of a DID call before any call was made
NoDidResult == [op |-> "none", outcome |-> "none"]
\* an argument of generate_config: given is FALSE for None
Arg(given, items) == [given |-> given, items |-> items]
None == Arg(FALSE, <<>>)
\* the arguments before any call of generate_config
NoGenArgs == [users_with_extensions |-> None, dids |-> None,
              policies |-> None, tenants |-> None, did_assignments |-> None]
\* no apply has loaded the database yet
NoDb == [tenants |-> <<>>, users |-> <<>>, did_assignments |-> <<>>]
\* no exception is in flight
NoException == "<no exception>"
\* the outcome of a call before any call was made
NoResult == [tenant_id |-> 0, outcome |-> "none", extension |-> NoExtension]

VARIABLES
    \* ---- apply orchestrator ----
    pc,              \* control point of each worker
    force,           \* the request's force flag
    validation,      \* local validation: the errors the validator returned
    exc,             \* str(e) of the exception in flight (NoException = none)
    touched,         \* history: this attempt has replaced the published file
    lock_acquired,   \* local variable lock_acquired
    backup_path,     \* local variable backup_path (NoPath = None)
    users_data,      \* the read model loaded in step 3 (database content)
    dialplan_config, \* the generated text (step 5)
    reload_success,  \* local reload_success: "None" until step 7 has run
    before_apply,    \* history: DIALPLAN_PATH when the call took the lock
    advisory_locks,  \* lock id -> session holding it (NoSession = free)
    apply_jobs,      \* the apply_jobs row created by each worker's call
    dialplan,        \* content of DIALPLAN_PATH (NoFile = absent)
    backups,         \* BACKUP_DIR: timestamp -> content of the copied file
    clock,           \* datetime.utcnow() in seconds
    \* ---- tenants and their extension cursor ----
    tenants,         \* table tenants: id -> row (NoTenant = no such row)
    users,           \* table users: tenant id -> its users' rows, in
                     \* insertion order
    requests,        \* history: allocation requests made so far per tenant
    result,          \* history: outcome of the last tenant/allocation call
    \* ---- concurrent user-creation requests ----
    u_pc,            \* control point of each user-creation request
    u_tenant,        \* its tenant_id argument
    u_session,       \* the Tenant object in its session (NoTenant = none)
    u_ext,           \* its local extension_number (NoExtension = unset)
    row_lock,        \* tenant id -> request holding the row lock (0 = free)
    \* ---- phone numbers (DIDs) ----
    phone_numbers,   \* table phone_numbers: id -> row (NoPhone = no such row)
    did_assignments, \* table did_assignments: the set of its rows
    audit_logs,      \* table audit_logs: its rows in insertion order
    did_result,      \* history: outcome of the last DID call that ended
    did_args,        \* history: the arguments that call was made with
    did_errors,      \* history: the error list that call returned
    d_calls,         \* the DID requests in progress, a bag: the control
                     \* point of each with its operation, its arguments
                     \* and what it has read
    \* ---- AtomicFileWriter.write_atomic ----
    w_pc,            \* control point of the call
    w_content,       \* its argument content
    w_tmp_path,      \* is its local tmp_path bound?
    w_exc,           \* the exception on its way ("none" if none)
    w_unlink,        \* history: what became of os.unlink(tmp_path)
    w_before,        \* history: the target file when the call was made
    fs,              \* the target directory: file -> content (Absent = no
                     \* such file)
    \* ---- configuration generator ----
    g_caller,        \* who made the last generate_config call
    g_args,          \* its arguments
    g_config,        \* the text it returned, as the sequence of its blocks
    g_db,            \* the rows the last full apply loaded: tenants, users
                     \* and, for each DID assignment, its number's tenant
    g_scope,         \* the tenant_id of the last apply (NoTenantId = none)
    g_before,        \* the text that was published before the last apply
    \* ---- one apply, query by query and file operation by file operation ----
    p_pc,            \* control point of the attempt that holds the lock
    p_db,            \* the committed database, as the text generated from it
    p_validated,     \* the database the validator's queries have read
    p_loaded,        \* the database the queries of step 3 have read
    p_content,       \* local dialplan_config
    p_backup,        \* the copy of the live file in the backup directory
    p_fs,            \* the live file and its .tmp file (Absent = no file)
    \* ---- allocate_extension (scan for the minimum unused number) ----
    extensions,      \* table extensions: its committed rows
    s_pc,            \* control point of each call and of its caller
    s_user,          \* its argument user_id
    s_attempt,       \* its loop variable attempt
    s_number,        \* its local available_number
    s_pending,       \* the number of the row it has flushed and its caller
                     \* has not committed yet (NoExtension = none)
    e_result         \* history: the numbers the cursor of the tenant and
                     \* allocate_extension returned for the same request

\* the locals of one call and the files it works on
locals == <<force, validation, exc, touched, lock_acquired, backup_path,
            users_data, dialplan_config, reload_success, before_apply>>
files == <<dialplan, backups>>

applyVars == <<pc, locals, advisory_locks, apply_jobs, files, clock>>

\* the tenant and user tables with the history of the calls on them
allocVars == <<tenants, users, requests, result>>

\* the user-creation requests in progress
userVars == <<u_pc, u_tenant, u_session, u_ext, row_lock>>

\* the phone number tables and the DID requests in progress
didVars == <<phone_numbers, did_assignments, audit_logs, did_result,
            did_args, did_errors, d_calls>>

\* the call of write_atomic in progress and the two files it works on
writerVars == <<w_pc, w_content, w_tmp_path, w_exc, w_unlink, w_before, fs>>

\* the last call of the configuration generator
genVars == <<g_caller, g_args, g_config, g_db, g_scope, g_before>>

\* the attempt that holds the lock, its files and the database it reads
pubVars == <<p_pc, p_db, p_validated, p_loaded, p_content, p_backup, p_fs>>

\* table extensions and the calls of allocate_extension in progress
scanVars == <<extensions, s_pc, s_user, s_attempt, s_number, s_pending,
             e_result>>

\* what an apply never writes
notApply == <<allocVars, userVars, didVars, writerVars, genVars, pubVars,
             scanVars>>

vars == <<applyVars, allocVars, userVars, didVars, writerVars, genVars,
         pubVars, scanVars>>

(***************************************************************************)
(* ApplyJob (src/src/models/apply_audit_log.py)                            *)
(***************************************************************************)
ApplyStatus == {"PENDING", "RUNNING", "SUCCESS", "FAILED", "ROLLED_BACK"}

\* ApplyJob(tenant_id, actor_id, status=PENDING)
ApplyJob ==
    [status |-> "PENDING", started_at |-> NoTime, ended_at |-> NoTime,
     error_text |-> NoText, diff_summary |-> NoText,
     config_files_json |-> NoText]

\* the worker has no call in progress, hence no row of its own (a row is
\* written only by the call that created it; the rows of calls that have
\* returned are not kept in the model)
NoJob == [ApplyJob EXCEPT !.status = "NONE"]

start(job, now) == [job EXCEPT !.status = "RUNNING", !.started_at = now]

succeed(job, now, diff_summary) ==
    [job EXCEPT !.status = "SUCCESS", !.ended_at = now,
                !.diff_summary = diff_summary]

fail(job, now, error_text) ==
    [job EXCEPT !.status = "FAILED", !.ended_at = now,
                !.error_text = error_text]

rollback(job, now, error_text) ==
    [job EXCEPT !.status = "ROLLED_BACK", !.ended_at = now,
                !.error_text = error_text]

(***************************************************************************)
(* Advisory lock                                                           *)
(***************************************************************************)
\* the try-lock if its result were ignored
pg_try_advisory_lock_ignored(locks, w) == TRUE

\* SELECT pg_try_advisory_lock(:lock_id): true iff the lock is free (the
\* session of worker w never holds it when it asks: one acquisition per
\* attempt, released before the attempt returns)
pg_try_advisory_lock(locks, w) == locks[APPLY_LOCK_ID] = NoSession

\* the unlock if the finally clause skipped it
pg_advisory_unlock_skipped(locks, w) == locks

\* SELECT pg_advisory_unlock(:lock_id): releases only the caller's own lock
pg_advisory_unlock(locks, w) ==
    IF locks[APPLY_LOCK_ID] = w
    THEN [locks EXCEPT ![APPLY_LOCK_ID] = NoSession]
    ELSE locks

(***************************************************************************)
(* Backup / rollback (ApplyService.backup_configuration,                   *)
(* rollback_configuration), for the single file DIALPLAN_PATH              *)
(***************************************************************************)
\* mkdir(exist_ok) of BACKUP_DIR/timestamp, then copy2 of the file if it
\* exists; a directory left by an earlier apply of the same second is reused
backup_configuration(bk, now, file) ==
    [bk EXCEPT ![now] = IF file # NoFile THEN file
                        ELSE IF @ = NoDir THEN NoFile ELSE @]

\* the content of the live file after rollback_configuration(path, [file])
rollback_configuration(bk, path, file) ==
    IF bk[path] = NoDir THEN file          \* backup directory not found
    ELSE IF bk[path] = NoFile THEN file    \* backup file not found: warning
    ELSE bk[path]                          \* copy2(backup_file, config_file)

(***************************************************************************)
(* Configuration generation: the text is a function of the loaded data     *)
(***************************************************************************)
generate_config(data) == data

ApplyInit ==
    /\ pc = [w \in Workers |-> "idle"]
    /\ force = [w \in Workers |-> FALSE]
    /\ validation = [w \in Workers |-> <<>>]
    /\ exc = [w \in Workers |-> NoException]
    /\ touched = [w \in Workers |-> FALSE]
    /\ lock_acquired = [w \in Workers |-> FALSE]
    /\ backup_path = [w \in Workers |-> NoPath]
    /\ users_data = [w \in Workers |-> 0]
    /\ dialplan_config = [w \in Workers |-> 0]
    /\ reload_success = [w \in Workers |-> "None"]
    /\ before_apply = [w \in Workers |-> NoFile]
    /\ advisory_locks = [l \in {APPLY_LOCK_ID} |-> NoSession]
    /\ apply_jobs = [w \in Workers |-> NoJob]
    /\ dialplan \in {NoFile, 0}
    /\ backups = [t \in Timestamps |-> NoDir]
    /\ clock = 0

\* empty tables tenants and users
AllocInit ==
    /\ tenants = [t \in TenantIds |-> NoTenant]
    /\ users = [t \in TenantIds |-> <<>>]
    /\ requests = [t \in TenantIds |-> 0]
    /\ result = NoResult

\* no user-creation request in progress
UserInit ==
    /\ u_pc = [r \in Requests |-> "idle"]
    /\ u_tenant = [r \in Requests |-> 0]
    /\ u_session = [r \in Requests |-> NoTenant]
    /\ u_ext = [r \in Requests |-> NoExtension]
    /\ row_lock = [t \in TenantIds |-> 0]

\* empty tables phone_numbers and did_assignments, no DID request
DidInit ==
    /\ phone_numbers = [id \in DidIds |-> NoPhone]
    /\ did_assignments = {}
    /\ audit_logs = <<>>
    /\ did_result = NoDidResult
    /\ did_args = NoArgs
    /\ did_errors = <<>>
    /\ d_calls = EmptyBag

\* no write_atomic call in progress; the target file is absent or holds
\* any content, there is no temporary file
WriterInit ==
    /\ w_pc = "idle"
    /\ w_content = <<>>
    /\ w_tmp_path = FALSE
    /\ w_exc = "none"
    /\ w_unlink = "none"
    /\ w_before = Absent
    /\ fs = [f \in {"target", "tmp"} |-> Absent]

\* no attempt has started: the database is empty, no file is published
PubInit ==
    /\ p_pc = "idle"
    /\ p_db = <<>>
    /\ p_validated = <<>>
    /\ p_loaded = <<>>
    /\ p_content = <<>>
    /\ p_backup = Absent
    /\ p_fs = [f \in {"live", "tmp"} |-> Absent]

\* no request has been served by both allocators yet
NoComparison ==
    [tenant_id |-> NoTenantId, pointer |-> NoExtension, scan |-> NoExtension]

\* table extensions is empty, no call of allocate_extension is in progress
ScanInit ==
    /\ extensions = {}
    /\ s_pc = [i \in Requests |-> "idle"]
    /\ s_user = [i \in Requests |-> NoUser]
    /\ s_attempt = [i \in Requests |-> 0]
    /\ s_number = [i \in Requests |-> NoExtension]
    /\ s_pending = [i \in Requests |-> NoExtension]
    /\ e_result = NoComparison

\* generate_config has not been called
GenInit ==
    /\ g_caller = "none"
    /\ g_args = NoGenArgs
    /\ g_config = <<>>
    /\ g_db = NoDb
    /\ g_scope = NoTenantId
    /\ g_before = <<>>

Init ==
    /\ ApplyInit /\ AllocInit /\ UserInit /\ DidInit /\ WriterInit /\ GenInit
    /\ PubInit
    /\ ScanInit

(***************************************************************************)
(* EnhancedApplyService.apply_configuration_safe, one action per step      *)
(***************************************************************************)
Job(w) == apply_jobs[w]

SetJob(w, job) == [apply_jobs EXCEPT ![w] = job]

\* the locals of a call that has not started or has returned
NoLocals(w) ==
    /\ force' = [force EXCEPT ![w] = FALSE]
    /\ validation' = [validation EXCEPT ![w] = <<>>]
    /\ exc' = [exc EXCEPT ![w] = NoException]
    /\ touched' = [touched EXCEPT ![w] = FALSE]
    /\ lock_acquired' = [lock_acquired EXCEPT ![w] = FALSE]
    /\ backup_path' = [backup_path EXCEPT ![w] = NoPath]
    /\ users_data' = [users_data EXCEPT ![w] = 0]
    /\ dialplan_config' = [dialplan_config EXCEPT ![w] = 0]
    /\ reload_success' = [reload_success EXCEPT ![w] = "None"]
    /\ before_apply' = [before_apply EXCEPT ![w] = NoFile]

\* lines 61-71: locals, job record created PENDING, session.add, flush
RequestSafe(w) ==
    /\ pc[w] = "idle"
    /\ apply_jobs' = SetJob(w, ApplyJob)
    /\ pc' = [pc EXCEPT ![w] = "lock"]
    /\ UNCHANGED <<locals, advisory_locks, files, clock>>
    /\ UNCHANGED notApply

\* finally: the lock is cleared whoever holds it (changed)
unlock_unguarded(locks, acquired, w) == [locks EXCEPT ![APPLY_LOCK_ID] = NoSession]

\* finally: if lock_acquired: SELECT pg_advisory_unlock(:lock_id)
unlock_if_acquired(locks, acquired, w) == IF acquired THEN pg_advisory_unlock(locks, w) ELSE locks

\* lines 74-88: step 1, try-lock; on conflict fail + commit + raise
TryLock(w) ==
    /\ pc[w] = "lock"
    /\ IF pg_try_advisory_lock(advisory_locks, w)
       THEN /\ advisory_locks' = [advisory_locks EXCEPT ![APPLY_LOCK_ID] = w]
            /\ lock_acquired' = [lock_acquired EXCEPT ![w] = TRUE]
            /\ apply_jobs' = SetJob(w, start(Job(w), SomeTime))
            /\ before_apply' = [before_apply EXCEPT ![w] = dialplan]
            /\ pc' = [pc EXCEPT ![w] = "validate"]
            /\ UNCHANGED exc
       ELSE /\ apply_jobs' = SetJob(w, fail(Job(w), SomeTime,
                                 "Another apply operation is in progress"))
            /\ pc' = [pc EXCEPT ![w] = "handler"]
            /\ exc' = [exc EXCEPT
                          ![w] = "Another apply operation is in progress"]
            /\ UNCHANGED <<advisory_locks, lock_acquired, before_apply>>
    /\ UNCHANGED <<force, validation, touched, backup_path, users_data, dialplan_config,
                   reload_success, files, clock>>
    /\ UNCHANGED notApply

\* ApplyService.validate_configuration: the lists of errors it can return
\* (which one depends on the database content; valid = the list is empty)
ValidatorErrors ==
    {<<>>,
     <<"Duplicate email found">>,
     <<"Duplicate email found", "User has no extension assigned">>}

\* line 94: f"Configuration validation failed: {', '.join(errors)}"
error_msg(errors) ==
    IF Len(errors) = 1
    THEN "Configuration validation failed: Duplicate email found"
    ELSE "Configuration validation failed: Duplicate email found, User has no extension assigned"

\* the test of line 93 if it let everything through
validation_rejects_never(errors, f) == FALSE

\* line 93: if not validation["valid"] and not force
validation_rejects(errors, f) == errors # <<>> /\ ~f

\* lines 90-101: step 2, validation (the validator's verdict depends on the
\* database content, any verdict is possible); the request's force flag is
\* first read here, so the model draws it here
Validate(w) ==
    /\ pc[w] = "validate"
    /\ \E errors \in ValidatorErrors, f \in BOOLEAN :
         /\ force' = [force EXCEPT ![w] = f]
         /\ validation' = [validation EXCEPT ![w] = errors]
         /\ IF validation_rejects(errors, f)
            THEN /\ apply_jobs' = SetJob(w, fail(Job(w), SomeTime,
                                                 error_msg(errors)))
                 /\ exc' = [exc EXCEPT ![w] = error_msg(errors)]
                 /\ pc' = [pc EXCEPT ![w] = "handler"]
            ELSE /\ pc' = [pc EXCEPT ![w] = "load"]
                 /\ UNCHANGED <<apply_jobs, exc>>
    /\ UNCHANGED <<touched, lock_acquired, backup_path, users_data, dialplan_config,
                   reload_success, before_apply, advisory_locks, files,
                   clock>>
    /\ UNCHANGED notApply

\* lines 103-172: step 3, load users, tenants, DID assignments: whatever
\* the other requests have committed by now
Load(w) ==
    /\ pc[w] = "load"
    /\ \E db \in 1..MaxDb : users_data' = [users_data EXCEPT ![w] = db]
    /\ pc' = [pc EXCEPT ![w] = "backup"]
    /\ UNCHANGED <<force, validation, exc, touched, lock_acquired, backup_path, dialplan_config,
                   reload_success, before_apply, advisory_locks, apply_jobs,
                   files, clock>>
    /\ UNCHANGED notApply

\* lines 174-180: step 4, backup; a failed backup returns None and the apply
\* continues
Backup(w) ==
    /\ pc[w] = "backup"
    /\ \E ok \in BOOLEAN :
         IF ok
         THEN /\ backups' = backup_configuration(backups, clock, dialplan)
              /\ backup_path' = [backup_path EXCEPT ![w] = clock]
         ELSE /\ backup_path' = [backup_path EXCEPT ![w] = NoPath]
              /\ UNCHANGED backups
    /\ pc' = [pc EXCEPT ![w] = "generate"]
    /\ UNCHANGED <<force, validation, exc, touched, lock_acquired, users_data, dialplan_config,
                   reload_success, before_apply, advisory_locks, apply_jobs,
                   dialplan, clock>>
    /\ UNCHANGED notApply

\* lines 182-188: step 5, generation
Generate(w) ==
    /\ pc[w] = "generate"
    /\ dialplan_config' = [dialplan_config EXCEPT
                              ![w] = generate_config(users_data[w])]
    /\ pc' = [pc EXCEPT ![w] = "write"]
    /\ UNCHANGED <<force, validation, exc, touched, lock_acquired, backup_path, users_data,
                   reload_success, before_apply, advisory_locks, apply_jobs,
                   files, clock>>
    /\ UNCHANGED notApply

\* lines 190-197: step 6, write_text to the .tmp file, then replace moves
\* it onto DIALPLAN_PATH
Write(w) ==
    /\ pc[w] = "write"
    /\ dialplan' = dialplan_config[w]
    /\ pc' = [pc EXCEPT ![w] = "reload"]
    /\ touched' = [touched EXCEPT ![w] = TRUE]
    /\ UNCHANGED <<force, validation, exc, lock_acquired, backup_path,
                   users_data, dialplan_config, reload_success, before_apply,
                   advisory_locks, apply_jobs, backups, clock>>
    /\ UNCHANGED notApply

\* lines 199-201 and 246-272: step 7, reload through AMI; _reload_asterisk
\* turns every failure into False
Reload(w) ==
    /\ pc[w] = "reload"
    /\ \E ok \in BOOLEAN :
         /\ reload_success' = [reload_success EXCEPT
                                  ![w] = IF ok THEN "True" ELSE "False"]
         /\ pc' = [pc EXCEPT ![w] = IF ok THEN "success" ELSE "reload_failed"]
    /\ UNCHANGED <<force, validation, exc, touched, lock_acquired, backup_path, users_data,
                   dialplan_config, before_apply, advisory_locks, apply_jobs,
                   files, clock>>
    /\ UNCHANGED notApply

\* the exceptions a step can raise unexpectedly: one built with a message,
\* one built without arguments (MemoryError(), TimeoutError(), ...)
Exceptions == {<<"unexpected error">>, <<>>}

\* str(e): the first argument of the exception, "" when it has none
str(e) == IF e = <<>> THEN "" ELSE e[1]

\* line 225: if backup_path
rollback_attempted(w) == backup_path[w] # NoPath

\* the live file after "if backup_path: rollback_configuration(...)";
\* io_ok = FALSE is an I/O error inside rollback_configuration, which it
\* catches and reports by returning False
Restore(w, io_ok) ==
    IF rollback_attempted(w) /\ io_ok
    THEN rollback_configuration(backups, backup_path[w], dialplan)
    ELSE dialplan

\* lines 203-210: reload failed: rollback, fail, commit, raise
ReloadFailed(w) ==
    /\ pc[w] = "reload_failed"
    /\ \E io_ok \in BOOLEAN : dialplan' = Restore(w, io_ok)
    /\ apply_jobs' = SetJob(w, fail(Job(w), SomeTime, "Asterisk reload failed"))
    /\ pc' = [pc EXCEPT ![w] = "handler"]
    /\ exc' = [exc EXCEPT ![w] = "Asterisk reload failed"]
    /\ UNCHANGED <<force, validation, touched, lock_acquired, backup_path,
                   users_data, dialplan_config, reload_success, before_apply,
                   advisory_locks, backups, clock>>
    /\ UNCHANGED notApply

\* lines 212-219: success: succeed, config_files_json, commit, return
Success(w) ==
    /\ pc[w] = "success"
    /\ apply_jobs' = SetJob(w,
           [succeed(Job(w), SomeTime, "Applied users across tenants")
              EXCEPT !.config_files_json = "dialplan"])
    /\ pc' = [pc EXCEPT ![w] = "finally"]
    /\ UNCHANGED <<locals, advisory_locks, files, clock>>
    /\ UNCHANGED notApply

\* the raising steps if the code that follows the last commit of the job
\* could raise as well
RaisingSteps_after_commit ==
    {"validate", "load", "generate", "write", "reload", "finally"}

\* the steps whose code can raise an unexpected exception: steps 2, 3, 5,
\* 6 and 7; after succeed() or fail() only commit, return and raise follow
RaisingSteps == {"validate", "load", "generate", "write", "reload"}

\* an unexpected exception raised by step 2, 3, 5, 6 or 7 (a write that
\* fails does so before the replace: DIALPLAN_PATH is not changed)
Raise(w) ==
    /\ pc[w] \in RaisingSteps
    /\ pc' = [pc EXCEPT ![w] = "handler"]
    /\ \E e \in Exceptions : exc' = [exc EXCEPT ![w] = str(e)]
    /\ UNCHANGED <<force, validation, touched, lock_acquired, backup_path,
                   users_data, dialplan_config, reload_success, before_apply,
                   advisory_locks, apply_jobs, dialplan, backups, clock>>
    /\ UNCHANGED notApply

\* the test of line 230 if the except clause never recorded the failure
needs_fail_never(job) == FALSE

\* line 230: if apply_job.status != ApplyStatus.FAILED
needs_fail(job) == job.status # "FAILED"

\* lines 221-234: except Exception: rollback if backup_path, fail unless the
\* job is FAILED already, re-raise
Handler(w) ==
    /\ pc[w] = "handler"
    /\ \E io_ok \in BOOLEAN : dialplan' = Restore(w, io_ok)
    /\ apply_jobs' = IF needs_fail(Job(w))
                     THEN SetJob(w, fail(Job(w), SomeTime, exc[w]))
                     ELSE apply_jobs
    /\ pc' = [pc EXCEPT ![w] = "finally"]
    /\ UNCHANGED <<locals, advisory_locks, backups, clock>>
    /\ UNCHANGED notApply

\* lines 236-243: finally: release the lock if this attempt acquired it;
\* the attempt then returns (or re-raises) to its caller and its locals
\* are gone
Finally(w) ==
    /\ pc[w] = "finally"
    /\ advisory_locks' = unlock_if_acquired(advisory_locks,
                                            lock_acquired[w], w)
    /\ NoLocals(w)
    /\ pc' = [pc EXCEPT ![w] = "returned"]
    /\ UNCHANGED <<apply_jobs, files, clock>>
    /\ UNCHANGED notApply

\* the caller (api/v1/apply.py) answers the request; the worker takes the
\* next request with a fresh session
Respond(w) ==
    /\ pc[w] = "returned"
    /\ apply_jobs' = SetJob(w, NoJob)
    /\ pc' = [pc EXCEPT ![w] = "idle"]
    /\ UNCHANGED <<locals, advisory_locks, files, clock>>
    /\ UNCHANGED notApply

(***************************************************************************)
(* ApplyService.apply_configuration (legacy entry point, same lock)        *)
(***************************************************************************)
\* lines 224-228
RequestLegacy(w) ==
    /\ pc[w] = "idle"
    /\ pc' = [pc EXCEPT ![w] = "l_lock"]
    /\ UNCHANGED <<locals, advisory_locks, apply_jobs, files, clock>>
    /\ UNCHANGED notApply

\* lines 230-246 and 370-392: try-lock; on conflict RuntimeError, caught by
\* the except clause, which changes nothing that is shared and re-raises
LegacyLock(w) ==
    /\ pc[w] = "l_lock"
    /\ IF pg_try_advisory_lock(advisory_locks, w)
       THEN /\ advisory_locks' = [advisory_locks EXCEPT ![APPLY_LOCK_ID] = w]
            /\ lock_acquired' = [lock_acquired EXCEPT ![w] = TRUE]
            /\ pc' = [pc EXCEPT ![w] = "l_read"]
       ELSE /\ pc' = [pc EXCEPT ![w] = "l_finally"]
            /\ UNCHANGED <<advisory_locks, lock_acquired>>
    /\ UNCHANGED <<force, validation, exc, touched, backup_path, users_data, dialplan_config,
                   reload_success, before_apply, apply_jobs, files, clock>>
    /\ UNCHANGED notApply

\* lines 248-282 and 370-392: the users are read; PJSIPRealtimeService is not
\* defined in the module, so step 3 raises NameError before any file is
\* written.  The except clause rolls the session back; its failure audit
\* record cannot be built (ApplyAuditLog is not defined either), that
\* error is swallowed; the NameError is re-raised
LegacyRead(w) ==
    /\ pc[w] = "l_read"
    /\ pc' = [pc EXCEPT ![w] = "l_finally"]
    /\ UNCHANGED <<locals, advisory_locks, apply_jobs, files, clock>>
    /\ UNCHANGED notApply

\* lines 394-410: finally: rollback the session and unlock
LegacyFinally(w) ==
    /\ pc[w] = "l_finally"
    /\ advisory_locks' = unlock_if_acquired(advisory_locks,
                                            lock_acquired[w], w)
    /\ NoLocals(w)
    /\ pc' = [pc EXCEPT ![w] = "returned"]
    /\ UNCHANGED <<apply_jobs, files, clock>>
    /\ UNCHANGED notApply

(***************************************************************************)
(* Environment of an apply                                                 *)
(***************************************************************************)
\* a second passes
Tick ==
    /\ clock < MaxClock
    /\ clock' = clock + 1
    /\ UNCHANGED <<pc, locals, advisory_locks, apply_jobs, files>>
    /\ UNCHANGED notApply

Next ==
    \/ \E w \in Workers : RequestSafe(w)
    \/ \E w \in Workers : TryLock(w)
    \/ \E w \in Workers : Validate(w)
    \/ \E w \in Workers : Load(w)
    \/ \E w \in Workers : Backup(w)
    \/ \E w \in Workers : Generate(w)
    \/ \E w \in Workers : Write(w)
    \/ \E w \in Workers : Reload(w)
    \/ \E w \in Workers : ReloadFailed(w)
    \/ \E w \in Workers : Success(w)
    \/ \E w \in Workers : Raise(w)
    \/ \E w \in Workers : Handler(w)
    \/ \E w \in Workers : Finally(w)
    \/ \E w \in Workers : Respond(w)
    \/ \E w \in Workers : RequestLegacy(w)
    \/ \E w \in Workers : LegacyLock(w)
    \/ \E w \in Workers : LegacyRead(w)
    \/ \E w \in Workers : LegacyFinally(w)
    \/ Tick

Spec == Init /\ [][Next]_vars

\* the steps of one attempt that only need the process to keep running,
\* from the try-lock to the return (the lock is a try-lock and does not
\* wait).  Two steps are not among them: Raise, which is a failure of the
\* environment, and Reload, which ends when the switch has answered:
\* AMIClient awaits reader.readline() without a time limit
\* (ami_client.py:155, 161, 237; only open_connection is under wait_for)
\* and _reload_asterisk is run by asyncio.run without one either
Attempt(w) ==
    \/ TryLock(w) \/ Validate(w) \/ Load(w) \/ Backup(w) \/ Generate(w)
    \/ Write(w) \/ ReloadFailed(w) \/ Success(w)
    \/ Handler(w) \/ Finally(w)
    \/ LegacyLock(w) \/ LegacyRead(w) \/ LegacyFinally(w)

\* every call that has started keeps running
SpecFair == Init /\ [][Next]_vars /\ \A w \in Workers : WF_vars(Attempt(w))

\* the switch answers every reload it is sent
SwitchAnswers == \A w \in Workers : WF_vars(Reload(w))

(***************************************************************************)
(* Properties of the apply orchestrator                                    *)
(***************************************************************************)
ConflictText == "Another apply operation is in progress"

\* the control points of steps 2-10 (and of the legacy steps after its lock)
StepPcs == {"validate", "load", "backup", "generate", "write", "reload",
            "reload_failed", "success", "l_read"}

Holder == advisory_locks[APPLY_LOCK_ID]

C1_State ==
    /\ Cardinality({w \in Workers : Job(w).status = "RUNNING"}) <= 1
    /\ \A w \in Workers :
         pc[w] \in StepPcs => lock_acquired[w] /\ Holder = w

C1_LockStep(w) ==
    (pc[w] = "lock" /\ pc'[w] # "lock") =>
        IF Holder # NoSession
        THEN /\ apply_jobs'[w].status = "FAILED"
             /\ apply_jobs'[w].error_text = ConflictText
             /\ apply_jobs'[w].started_at = NoTime
             /\ pc'[w] = "handler"
             /\ ~lock_acquired'[w]
             /\ UNCHANGED <<advisory_locks, files>>
        ELSE /\ apply_jobs'[w].status = "RUNNING"
             /\ advisory_locks'[APPLY_LOCK_ID] = w

C1_FileStep ==
    dialplan' # dialplan =>
        \E w \in Workers :
            /\ Holder = w
            /\ lock_acquired[w]
            /\ apply_jobs[w].started_at # NoTime
            /\ pc'[w] # pc[w]

\* C1: of the apply attempts in progress at most one is RUNNING; an attempt
\* that asks for the lock while another holds it becomes FAILED with the
\* conflict text without ever being RUNNING, the steps validation .. reload
\* are executed only by the holder of the lock, and the published file is
\* changed only by a step of the holder.
C1_ExactlyOneRunning ==
    /\ []C1_State
    /\ [][(\A w \in Workers : C1_LockStep(w)) /\ C1_FileStep]_vars

\* two attempts overlap: one is RUNNING, the other saw the conflict
C1_Witness ==
    \E w1, w2 \in Workers :
        /\ w1 # w2
        /\ Job(w1).status = "RUNNING"
        /\ pc[w1] = "reload"
        /\ Job(w2).status = "FAILED"
        /\ Job(w2).error_text = ConflictText
        /\ pc[w2] = "returned"

C38_LockStep(w) ==
    (~lock_acquired[w] /\ pc'[w] # pc[w]) =>
        \/ advisory_locks' = advisory_locks
        \/ (pc[w] \in {"lock", "l_lock"} /\ Holder = NoSession
              /\ advisory_locks'[APPLY_LOCK_ID] = w)

C38_HolderStep(h) ==
    (Holder = h /\ Job(h).status = "RUNNING"
       /\ advisory_locks'[APPLY_LOCK_ID] # h) => pc'[h] # pc[h]

\* C38: an attempt that did not acquire the lock never releases it: none of
\* its steps (its error handler and its finally clause included) changes the
\* lock, and while another attempt holds the lock and is RUNNING only a step
\* of that attempt frees it.
C38_LoserNeverReleases ==
    [][\A w \in Workers : C38_LockStep(w) /\ C38_HolderStep(w)]_vars

\* the loser has run its handler and its finally clause and has returned,
\* and the other attempt is still RUNNING and still holds the lock
C38_Witness ==
    \E w1, w2 \in Workers :
        /\ w1 # w2
        /\ Holder = w1
        /\ lock_acquired[w1]
        /\ Job(w1).status = "RUNNING"
        /\ pc[w1] = "validate"
        /\ ~lock_acquired[w2]
        /\ Job(w2).error_text = ConflictText
        /\ pc[w2] = "returned"

\* C3: when the reload failed after the publish, the job ends ROLLED_BACK
\* with a non-empty error text.
C3_ReloadFailureRolledBack ==
    \A w \in Workers :
        (pc[w] = "finally" /\ reload_success[w] = "False") =>
            /\ Job(w).status = "ROLLED_BACK"
            /\ Job(w).error_text \notin {NoText, ""}

\* C4: when the reload failed after the publish, the published file is, once
\* the job is terminal, what it was before the apply began.
C4_ReloadFailureRestoresFile ==
    \A w \in Workers :
        (pc[w] = "finally" /\ reload_success[w] = "False") =>
            dialplan = before_apply[w]

\* the status changes the life cycle allows ("NONE" is the model's "no row":
\* a row appears as PENDING and is dropped from the model when terminal)
Lifecycle ==
    {<<"NONE", "PENDING">>, <<"PENDING", "RUNNING">>,
     <<"RUNNING", "SUCCESS">>, <<"RUNNING", "FAILED">>,
     <<"RUNNING", "ROLLED_BACK">>,
     <<"SUCCESS", "NONE">>, <<"FAILED", "NONE">>, <<"ROLLED_BACK", "NONE">>}

\* C5: the status of a job only moves PENDING -> RUNNING -> SUCCESS, FAILED
\* or ROLLED_BACK; no status is skipped or revisited.
C5_StrictLifecycle ==
    [][\A w \in Workers :
          apply_jobs'[w].status # apply_jobs[w].status =>
              <<apply_jobs[w].status, apply_jobs'[w].status>> \in Lifecycle]_vars

\* the job of worker w is FAILED with the text of a refused validation
ValidationFailed(w) ==
    /\ Job(w).status = "FAILED"
    /\ Job(w).error_text \in {error_msg(errors) :
                                 errors \in ValidatorErrors \ {<<>>}}

\* C17: when the validator returns errors and force is not set, the step
\* ends with the job FAILED and the errors in its error text; from then on
\* the attempt only runs its handler and its finally clause, takes no
\* backup, generates, publishes and reloads nothing, the published file
\* and the backups stay as they are, and when it has returned the lock is
\* no longer its own.
C17_ValidationFailureStops ==
    /\ [](\A w \in Workers :
            ValidationFailed(w) =>
                /\ pc[w] \in {"handler", "finally", "returned"}
                /\ pc[w] # "returned" =>
                       /\ Job(w).error_text = error_msg(validation[w])
                       /\ ~force[w]
                       /\ backup_path[w] = NoPath
                       /\ reload_success[w] = "None"
                       /\ dialplan = before_apply[w]
                /\ pc[w] = "returned" => Holder # w)
    /\ [][\A w \in Workers :
            /\ (/\ pc[w] = "validate"
                /\ pc'[w] # "validate"
                /\ validation'[w] # <<>>
                /\ ~force'[w])
               => ValidationFailed(w)' /\ pc'[w] = "handler"
            /\ (ValidationFailed(w) /\ pc[w] # "returned")
               => UNCHANGED files]_vars

\* an attempt whose validation found two errors has run its handler: the
\* job is FAILED with both errors, the attempt still holds the lock
C17_Witness ==
    \E w \in Workers :
        /\ pc[w] = "finally"
        /\ Len(validation[w]) = 2
        /\ Job(w).status = "FAILED"
        /\ Job(w).error_text = error_msg(validation[w])
        /\ Holder = w
        /\ dialplan # NoFile

\* the except clause of worker w runs on an exception no step has
\* recorded in the job
UnexpectedHandled(w) ==
    /\ pc[w] = "handler"
    /\ pc'[w] = "finally"
    /\ Job(w).status # "FAILED"

\* C18: the except clause, run on an unexpected exception, leaves the job
\* FAILED with a non-empty error text and, when the attempt had replaced
\* the published file, has called rollback_configuration.
C18_UnexpectedErrorHandled ==
    [][\A w \in Workers :
          UnexpectedHandled(w) =>
              /\ Job(w)'.status = "FAILED"
              /\ Job(w)'.error_text # ""
              /\ touched[w] => rollback_attempted(w)]_vars

\* what the except clause does guarantee: the job is FAILED with str(e),
\* and the file is only changed when a backup was taken
HandlerRecords ==
    [][\A w \in Workers :
          UnexpectedHandled(w) =>
              /\ Job(w)'.status = "FAILED"
              /\ Job(w)'.error_text = exc[w]
              /\ backup_path[w] = NoPath => UNCHANGED dialplan]_vars

Terminal == {"SUCCESS", "FAILED", "ROLLED_BACK"}

\* worker w has created the job of an attempt that has not returned yet
InAttempt(w) == Job(w).status # "NONE" /\ pc[w] # "returned"

\* C19: every attempt that has created its job returns, and when it has
\* returned its job is SUCCESS, FAILED or ROLLED_BACK, never PENDING or
\* RUNNING.
C19_AttemptsEndTerminal ==
    /\ [](\A w \in Workers :
            (pc[w] = "returned" /\ Job(w).status # "NONE")
                => Job(w).status \in Terminal)
    /\ \A w \in Workers :
            InAttempt(w) ~> (pc[w] = "returned" /\ Job(w).status \in Terminal)

\* the same for the runs in which the switch answers every reload
EndTerminalIfSwitchAnswers == SwitchAnswers => C19_AttemptsEndTerminal

\* an attempt that got the lock and then met an unexpected exception has
\* returned with its job FAILED by the except clause
C19_Witness ==
    \E w \in Workers :
        /\ pc[w] = "returned"
        /\ Job(w).status = "FAILED"
        /\ Job(w).started_at # NoTime
        /\ Job(w).error_text \in {str(e) : e \in Exceptions}

\* C20: once the job of an attempt is SUCCESS, FAILED or ROLLED_BACK, no
\* step of the attempt (the except clause and the finally clause included)
\* changes its status, error text, diff summary or config_files_json.
C20_TerminalJobImmutable ==
    [][\A w \in Workers :
          (Job(w).status \in Terminal /\ Job(w)'.status # "NONE") =>
              /\ Job(w)'.status = Job(w).status
              /\ Job(w)'.error_text = Job(w).error_text
              /\ Job(w)'.diff_summary = Job(w).diff_summary
              /\ Job(w)'.config_files_json = Job(w).config_files_json]_vars

\* the except clause has run on a job that the failed reload had already
\* marked FAILED, after the published file had been replaced
C20_Witness ==
    \E w \in Workers :
        /\ pc[w] = "finally"
        /\ touched[w]
        /\ exc[w] = "Asterisk reload failed"
        /\ Job(w).status = "FAILED"
        /\ Job(w).error_text = "Asterisk reload failed"

\* the job records with which a run that took a backup can end
JobsOfBackedUpRuns ==
    LET running == start(ApplyJob, SomeTime)
    IN  {[succeed(running, SomeTime, "Applied users across tenants")
            EXCEPT !.config_files_json = "dialplan"]}
        \cup {fail(running, SomeTime, "Asterisk reload failed")}
        \cup {fail(running, SomeTime, str(e)) : e \in Exceptions}

\* worker w has published without a backup: backup_configuration returned
\* None and the apply went on
PublishedWithoutBackup(w) == touched[w] /\ backup_path[w] = NoPath

\* C21: when the backup step fails the apply goes on to generation,
\* publish and reload, and the job it ends with shows that no rollback was
\* possible: it differs from every job a run with a backup ends with.
C21_BackupFailureSurfaced ==
    /\ [][\A w \in Workers :
            (pc[w] = "backup" /\ pc'[w] # "backup") => pc'[w] = "generate"]_vars
    /\ [](\A w \in Workers :
            (PublishedWithoutBackup(w) /\ pc[w] = "finally")
                => Job(w) \notin JobsOfBackedUpRuns)

\* what the code does: a failed backup does not stop the apply
BackupFailureProceeds ==
    [][\A w \in Workers :
          (pc[w] = "backup" /\ pc'[w] # "backup") => pc'[w] = "generate"]_vars

\* the subsystems an apply changes: routing (dialplan) and endpoints (pjsip)
Subsystems == {"dialplan", "pjsip"}

\* the reloads worker w has invoked: _reload_asterisk calls
\* ami.reload_dialplan() and nothing else
invoked_reloads(w) == IF reload_success[w] = "None" THEN {} ELSE {"dialplan"}

\* C22: an apply that ends SUCCESS has invoked the reload of the routing
\* and of the endpoints and every reload reported success; an apply with a
\* reload that reported failure ends FAILED.
C22_AllReloadsInvoked ==
    [](\A w \in Workers :
          /\ (pc[w] = "finally" /\ Job(w).status = "SUCCESS")
                => /\ invoked_reloads(w) = Subsystems
                   /\ reload_success[w] = "True"
          /\ (pc[w] = "finally" /\ reload_success[w] = "False")
                => Job(w).status = "FAILED")

\* what the code does: the one reload it invokes decides the outcome
DialplanReloadDecides ==
    [](\A w \in Workers :
          /\ (pc[w] = "finally" /\ Job(w).status = "SUCCESS")
                => /\ invoked_reloads(w) = {"dialplan"}
                   /\ reload_success[w] = "True"
          /\ (pc[w] = "finally" /\ reload_success[w] = "False")
                => Job(w).status = "FAILED")

\* C23: every reload an apply has invoked returns, with success or with
\* failure, whether the switch answers or not.
C23_ReloadReturns ==
    \A w \in Workers : (pc[w] = "reload") ~> (pc[w] # "reload")

\* every other step of an attempt returns: an attempt that does not
\* return is waiting in its reload
OnlyReloadWaits ==
    \A w \in Workers :
        InAttempt(w) ~> (pc[w] = "returned" \/ pc[w] = "reload")

\* a row of table audit_logs: the action, the type and the id of the entity
AuditLog(action, entity_type, entity_id) ==
    [action |-> action, entity_type |-> entity_type,
     entity_id |-> entity_id]

\* the row AuditService.log_apply adds for the job of worker w.  No step
\* of an apply calls it (nothing in the repository does): every action
\* above leaves audit_logs as it is
ApplyAuditRow(w) == AuditLog("APPLY", "ApplyJob", w)

\* the attempt of worker w runs its finally clause and returns
Returns(w) ==
    /\ pc[w] = "finally"
    /\ pc'[w] = "returned"
    /\ Job(w).status # "NONE"

\* C29: when an attempt reaches the release of the lock, whatever its
\* outcome (SUCCESS, FAILED, ROLLED_BACK, a lock conflict included), table
\* audit_logs holds an APPLY row for its job.
C29_OutcomeAudited ==
    [][\A w \in Workers :
          Returns(w) =>
              \E i \in DOMAIN audit_logs : audit_logs[i] = ApplyAuditRow(w)]_vars

\* what an attempt has recorded when it returns: the outcome on its own
\* row of apply_jobs, and nothing in audit_logs
OutcomeOnJobOnly ==
    [][\A w \in Workers :
          Returns(w) =>
              /\ Job(w).status \in Terminal
              /\ \A i \in DOMAIN audit_logs : audit_logs[i].action # "APPLY"]_vars

(***************************************************************************)
(* Tenant (src/src/models/tenant.py) and TenantService.create_tenant       *)
(***************************************************************************)
\* the range create_tenant accepts: 1000 .. 99999
EXT_FLOOR == 1000
EXT_CEILING == 99999

\* the ext_min and ext_max arguments the calls are made with
ExtArgs == (EXT_FLOOR - 1)..MaxExt

Tenant(ext_min, ext_max, ext_next) ==
    [ext_min |-> ext_min, ext_max |-> ext_max, ext_next |-> ext_next]

User(tenant_id, extension) ==
    [tenant_id |-> tenant_id, extension |-> extension]

\* the check if it stopped one number early
has_available_extensions_strict(self) == self.ext_next < self.ext_max

\* Tenant.has_available_extensions
has_available_extensions(self) == self.ext_next <= self.ext_max

\* the cursor if it advanced by two
get_next_extension_skips(self) ==
    IF ~has_available_extensions(self)
    THEN [raised |-> TRUE, extension |-> NoExtension, self |-> self]
    ELSE [raised |-> FALSE, extension |-> self.ext_next,
          self |-> [self EXCEPT !.ext_next = @ + 2]]

\* the cursor if it did not advance
get_next_extension_no_advance(self) ==
    IF ~has_available_extensions(self)
    THEN [raised |-> TRUE, extension |-> NoExtension, self |-> self]
    ELSE [raised |-> FALSE, extension |-> self.ext_next, self |-> self]

\* Tenant.get_next_extension: raises ValueError("Extension pool exhausted")
\* or returns ext_next and increments it; self is the object afterwards
get_next_extension(self) ==
    IF ~has_available_extensions(self)
    THEN [raised |-> TRUE, extension |-> NoExtension, self |-> self]
    ELSE [raised |-> FALSE, extension |-> self.ext_next,
          self |-> [self EXCEPT !.ext_next = @ + 1]]

\* the number of extensions in a tenant's pool
PoolSize(self) == self.ext_max - self.ext_min + 1

\* the users of a tenant, as the indexes of their rows
UsersOf(t) == DOMAIN users[t]

\* session.add(user) and its INSERT
AddUser(table, user) ==
    [table EXCEPT ![user.tenant_id] = Append(@, user)]

\* TenantService.create_tenant lines 60-65: ext_min >= ext_max and a range
\* outside 1000 .. 99999 are rejected
RangeRejected(ext_min, ext_max) ==
    \/ ext_min >= ext_max
    \/ ext_min < EXT_FLOOR \/ ext_max > EXT_CEILING

\* TenantService.create_tenant(name, ext_min, ext_max) and the commit of its
\* caller: an existing name is rejected first, then the range; the new
\* tenant's cursor starts at ext_min
CreateTenant(t) ==
    /\ IF tenants[t] # NoTenant
       THEN /\ result' = [tenant_id |-> t, outcome |-> "ValueError",
                          extension |-> NoExtension]
            /\ UNCHANGED tenants
       ELSE \E ext_min \in ExtArgs, ext_max \in ExtArgs :
              IF RangeRejected(ext_min, ext_max)
              THEN /\ result' = [tenant_id |-> t, outcome |-> "ValueError",
                                 extension |-> NoExtension]
                   /\ UNCHANGED tenants
              ELSE /\ tenants' = [tenants EXCEPT
                                    ![t] = Tenant(ext_min, ext_max, ext_min)]
                   /\ result' = [tenant_id |-> t, outcome |-> "created",
                                 extension |-> NoExtension]
    /\ UNCHANGED <<users, requests, applyVars, writerVars, genVars, scanVars, pubVars, userVars, didVars>>

\* one allocation request served alone: the tenant is looked up,
\* get_next_extension is called on it, the user holding the number is
\* stored and the transaction commits; a raised ValueError leaves the
\* tables as they were
AllocateExtension(t) ==
    /\ requests[t] < PoolSize(tenants[t]) + MaxExtraRequests
    /\ IF tenants[t] = NoTenant
       THEN /\ result' = [tenant_id |-> t, outcome |-> "TenantNotFound",
                          extension |-> NoExtension]
            /\ UNCHANGED <<tenants, users, requests>>
       ELSE LET r == get_next_extension(tenants[t])
            IN  /\ requests' = [requests EXCEPT ![t] = @ + 1]
                /\ IF r.raised
                   THEN /\ result' = [tenant_id |-> t,
                                      outcome |-> "PoolExhausted",
                                      extension |-> NoExtension]
                        /\ UNCHANGED <<tenants, users>>
                   ELSE /\ tenants' = [tenants EXCEPT ![t] = r.self]
                        /\ users' = AddUser(users, User(t, r.extension))
                        /\ result' = [tenant_id |-> t, outcome |-> "ok",
                                      extension |-> r.extension]
    /\ UNCHANGED <<applyVars, writerVars, genVars, scanVars, pubVars, userVars, didVars>>

NextAlloc ==
    \/ \E t \in TenantIds : CreateTenant(t)
    \/ \E t \in TenantIds : AllocateExtension(t)

SpecAlloc == Init /\ [][NextAlloc]_vars

C7_ExhaustedExactlyAfterPool ==
    [][\A t \in TenantIds :
          requests'[t] = requests[t] + 1 =>
              IF requests[t] < PoolSize(tenants[t])
              THEN /\ result'.outcome = "ok"
                   /\ result'.extension = tenants[t].ext_min + requests[t]
                   /\ tenants'[t].ext_next = tenants[t].ext_next + 1
              ELSE /\ result'.outcome = "PoolExhausted"
                   /\ tenants'[t].ext_next = tenants[t].ext_next
                   /\ users' = users]_vars

\* the request after the last number of the pool was refused
C7_Witness ==
    \E t \in TenantIds :
        /\ tenants[t] # NoTenant
        /\ requests[t] = PoolSize(tenants[t]) + 1
        /\ Cardinality(UsersOf(t)) = PoolSize(tenants[t])
        /\ result = [tenant_id |-> t, outcome |-> "PoolExhausted",
                     extension |-> NoExtension]

(***************************************************************************)
(* TenantService.update_tenant (src/src/services/tenant_service.py)        *)
(***************************************************************************)
\* a field the PATCH request leaves out
NotGiven == -2

\* the values TenantUpdate accepts for ext_min and ext_max (ge=1000,
\* le=99999), or the field is left out
UpdateArgs == {NotGiven} \cup (EXT_FLOOR..MaxExt)

\* updates.get(field, current)
get(update, current) == IF update = NotGiven THEN current ELSE update

\* lines 138-142: the only check on the new range is ext_min >= ext_max
update_rejected(self, ext_min, ext_max) == ext_min >= ext_max

\* TenantService.update_tenant(tenant_id, ext_min=..., ext_max=...) and the
\* commit of its caller: an unknown tenant and a range with
\* ext_min >= ext_max raise ValueError; otherwise setattr stores the given
\* fields, ext_next is left as it is
UpdateTenant(t) ==
    /\ \E min_update \in UpdateArgs, max_update \in UpdateArgs :
         IF tenants[t] = NoTenant
         THEN /\ result' = [tenant_id |-> t, outcome |-> "ValueError",
                            extension |-> NoExtension]
              /\ UNCHANGED tenants
         ELSE LET ext_min == get(min_update, tenants[t].ext_min)
                  ext_max == get(max_update, tenants[t].ext_max)
              IN  IF update_rejected(tenants[t], ext_min, ext_max)
                  THEN /\ result' = [tenant_id |-> t,
                                     outcome |-> "ValueError",
                                     extension |-> NoExtension]
                       /\ UNCHANGED tenants
                  ELSE /\ tenants' = [tenants EXCEPT
                                        ![t].ext_min = ext_min,
                                        ![t].ext_max = ext_max]
                       /\ result' = [tenant_id |-> t, outcome |-> "updated",
                                     extension |-> NoExtension]
    /\ UNCHANGED <<users, requests, applyVars, writerVars, genVars, scanVars, pubVars, userVars, didVars>>

NextTenant ==
    \/ \E t \in TenantIds : CreateTenant(t)
    \/ \E t \in TenantIds : AllocateExtension(t)
    \/ \E t \in TenantIds : UpdateTenant(t)

SpecTenant == Init /\ [][NextTenant]_vars

\* C24: after any sequence of tenant creations, tenant updates and
\* extension allocations, every tenant has
\* ext_min <= ext_next <= ext_max + 1.
C24_CursorWithinBounds ==
    \A t \in TenantIds :
        tenants[t] # NoTenant =>
            /\ tenants[t].ext_min <= tenants[t].ext_next
            /\ tenants[t].ext_next <= tenants[t].ext_max + 1

\* what update_tenant does keep: the range is never empty
RangeNeverEmpty ==
    \A t \in TenantIds :
        tenants[t] # NoTenant => tenants[t].ext_min < tenants[t].ext_max

(***************************************************************************)
(* Concurrent user creation: UserService.create_user called by the         *)
(* endpoint create_user (api/v1/users.py), each request in its own session *)
(* and transaction.  allocate_extension_for_tenant is imported by          *)
(* user_service.py but not defined in services/extension_allocator.py; it  *)
(* is modelled as section 4.1 of the specification describes it: an        *)
(* exclusive row lock on the tenant held until the transaction ends, the   *)
(* cursor read under the lock and advanced by Tenant.get_next_extension.   *)
(***************************************************************************)
\* the tenants create_tenant has stored when the requests arrive: each
\* tenant is absent or holds the pool EXT_FLOOR .. MaxExt with its cursor at
\* ext_min and no user yet; no apply has published a dialplan
NewTenants == {Tenant(EXT_FLOOR, MaxExt, EXT_FLOOR)}

InitUsers ==
    /\ ApplyInit
    /\ dialplan = NoFile
    /\ UserInit
    /\ DidInit
    /\ tenants \in [TenantIds -> NewTenants \cup {NoTenant}]
    /\ users = [t \in TenantIds |-> <<>>]
    /\ requests = [t \in TenantIds |-> 0]
    /\ result = NoResult
    /\ WriterInit
    /\ GenInit
    /\ PubInit
    /\ ScanInit

\* the locals of a request that is not in progress
NoRequest(r) ==
    /\ u_pc' = [u_pc EXCEPT ![r] = "idle"]
    /\ u_tenant' = [u_tenant EXCEPT ![r] = 0]
    /\ u_session' = [u_session EXCEPT ![r] = NoTenant]
    /\ u_ext' = [u_ext EXCEPT ![r] = NoExtension]

\* the row locks after the transaction of request r has ended
ReleaseRowLocks(r) ==
    [t \in TenantIds |-> IF row_lock[t] = r THEN 0 ELSE row_lock[t]]

\* create_user lines 64-72: the tenant is read without a lock; an unknown
\* tenant is a ValueError (answered 400, the session is closed)
BeginCreateUser(r) ==
    /\ u_pc[r] = "idle"
    /\ \E t \in TenantIds :
         IF tenants[t] = NoTenant
         THEN UNCHANGED <<u_pc, u_tenant, u_session>>
         ELSE /\ u_tenant' = [u_tenant EXCEPT ![r] = t]
              /\ u_session' = [u_session EXCEPT ![r] = tenants[t]]
              /\ u_pc' = [u_pc EXCEPT ![r] = "allocate"]
    /\ UNCHANGED <<u_ext, row_lock, allocVars, applyVars, writerVars, genVars, scanVars, pubVars, didVars>>

\* allocate_extension_for_tenant, first half: SELECT ... FOR UPDATE of the
\* tenant row blocks while another transaction holds the lock, then reads
\* the committed row
LockTenantRow(r) ==
    /\ u_pc[r] = "allocate"
    /\ row_lock[u_tenant[r]] = 0
    /\ row_lock' = [row_lock EXCEPT ![u_tenant[r]] = r]
    /\ u_session' = [u_session EXCEPT ![r] = tenants[u_tenant[r]]]
    /\ u_pc' = [u_pc EXCEPT ![r] = "cursor"]
    /\ UNCHANGED <<u_tenant, u_ext, allocVars, applyVars, writerVars, genVars, scanVars, pubVars, didVars>>

\* allocate_extension_for_tenant, second half, and create_user lines 74-79:
\* the cursor is advanced on the session's Tenant object; an exhausted pool
\* is re-raised as RuntimeError
AdvanceCursor(r) ==
    /\ u_pc[r] = "cursor"
    /\ LET res == get_next_extension(u_session[r])
       IN  IF res.raised
           THEN /\ u_pc' = [u_pc EXCEPT ![r] = "failed"]
                /\ UNCHANGED <<u_session, u_ext>>
           ELSE /\ u_ext' = [u_ext EXCEPT ![r] = res.extension]
                /\ u_session' = [u_session EXCEPT ![r] = res.self]
                /\ u_pc' = [u_pc EXCEPT ![r] = "flush"]
    /\ UNCHANGED <<u_tenant, row_lock, allocVars, applyVars, writerVars, genVars, scanVars, pubVars, didVars>>

\* create_user lines 81-122: the User is built with the extension and
\* flushed with the tenant's new cursor, the audit entry is written; any of
\* it may raise (a duplicate email, a database error)
FlushUser(r) ==
    /\ u_pc[r] = "flush"
    /\ \E ok \in BOOLEAN :
         u_pc' = [u_pc EXCEPT ![r] = IF ok THEN "commit" ELSE "failed"]
    /\ UNCHANGED <<u_tenant, u_session, u_ext, row_lock, allocVars, applyVars, writerVars, genVars, scanVars, pubVars, didVars>>

\* api/v1/users.py line 54: db.commit() makes the user and the cursor
\* visible and ends the transaction, releasing the row lock
CommitUser(r) ==
    /\ u_pc[r] = "commit"
    /\ tenants' = [tenants EXCEPT ![u_tenant[r]] = u_session[r]]
    /\ users' = AddUser(users, User(u_tenant[r], u_ext[r]))
    /\ row_lock' = ReleaseRowLocks(r)
    /\ NoRequest(r)
    /\ UNCHANGED <<requests, result, applyVars, writerVars, genVars, scanVars, pubVars, didVars>>

\* the tenant row if the close of a failed request kept what the session
\* had changed
closed_keeps_changes(committed, session) == session

\* database.py lines 55-56: db.close() without a commit: the transaction
\* is rolled back, the committed row stays as it was
closed(committed, session) == committed

\* the request ends with an exception: get_db closes the session, which
\* rolls the transaction back and releases the row lock
RollbackUser(r) ==
    /\ u_pc[r] = "failed"
    /\ tenants' = [tenants EXCEPT
                     ![u_tenant[r]] = closed(@, u_session[r])]
    /\ row_lock' = ReleaseRowLocks(r)
    /\ NoRequest(r)
    /\ UNCHANGED <<users, requests, result, applyVars, writerVars, genVars, scanVars, pubVars, didVars>>

NextUsers ==
    \/ \E r \in Requests : BeginCreateUser(r)
    \/ \E r \in Requests : LockTenantRow(r)
    \/ \E r \in Requests : AdvanceCursor(r)
    \/ \E r \in Requests : FlushUser(r)
    \/ \E r \in Requests : CommitUser(r)
    \/ \E r \in Requests : RollbackUser(r)

SpecUsers == InitUsers /\ [][NextUsers]_vars

\* the requests that have been given an extension number
Given == {r \in Requests : u_ext[r] # NoExtension}

\* C8: whatever the interleaving of the user-creation requests of a tenant,
\* no two of them are given the same extension number: not two stored
\* users, not two requests in progress, not a request in progress and a
\* stored user.
C8_NoDuplicateExtension ==
    /\ \A t \in TenantIds : \A i \in UsersOf(t), j \in UsersOf(t) :
           i # j => users[t][i].extension # users[t][j].extension
    /\ \A r1 \in Given, r2 \in Given :
           (r1 # r2 /\ u_tenant[r1] = u_tenant[r2]) => u_ext[r1] # u_ext[r2]
    /\ \A r \in Given : \A i \in UsersOf(u_tenant[r]) :
           users[u_tenant[r]][i].extension # u_ext[r]

\* two requests for one tenant overlap: both read the same cursor value
\* before either took the lock, one of them has committed its user, and the
\* other now holds the next number
C8_Witness ==
    \E r1 \in Requests, r2 \in Requests :
        /\ r1 # r2
        /\ u_tenant[r1] = u_tenant[r2]
        /\ u_pc[r1] = "commit"
        /\ u_pc[r2] = "allocate"
        /\ u_session[r2].ext_next = u_ext[r1]
        /\ Len(users[u_tenant[r2]]) >= 1

\* the extension numbers the committed users of tenant t hold
CommittedExtensions(t) == {users[t][i].extension : i \in UsersOf(t)}

\* C25: the committed cursor and the committed users change together: a
\* step that advances the committed ext_next advances it by one and
\* stores the user holding the number it passed, a request that fails
\* after its allocation leaves the committed cursor and users as they
\* were, and at any time the committed users hold exactly the numbers
\* between ext_min and the committed ext_next.
C25_CursorAndUserCommitTogether ==
    /\ [](\A t \in TenantIds :
            tenants[t] # NoTenant =>
                CommittedExtensions(t)
                    = tenants[t].ext_min..(tenants[t].ext_next - 1))
    /\ [][\A t \in TenantIds :
            /\ tenants'[t] # tenants[t] =>
                  /\ tenants'[t] = [tenants[t] EXCEPT !.ext_next = @ + 1]
                  /\ users'[t] = Append(users[t],
                                        User(t, tenants[t].ext_next))
            /\ users'[t] # users[t] => tenants'[t] # tenants[t]]_vars
    /\ [][\A r \in Requests :
            (u_pc[r] = "failed" /\ u_pc'[r] = "idle")
                => UNCHANGED <<tenants, users>>]_vars

\* the flush of a request failed after the request had advanced the cursor
\* in its session; a user of another request is committed, and the
\* committed cursor does not count the failed request's number
C25_Witness ==
    \E r \in Requests :
        /\ u_pc[r] = "failed"
        /\ u_ext[r] # NoExtension
        /\ u_session[r].ext_next = u_ext[r] + 1
        /\ tenants[u_tenant[r]].ext_next = u_ext[r]
        /\ Len(users[u_tenant[r]]) >= 1

(***************************************************************************)
(* Phone numbers: PhoneNumber, DIDAssignment and DIDService                *)
(* (src/src/models/phone_number.py, did_assignment.py,                     *)
(*  src/src/services/did_service.py).  Every operation of DIDService is    *)
(* two operators: what it reads and validates (it raises the returned      *)
(* text unless that is "ok"), and what its flush and commit write.         *)
(***************************************************************************)
PhoneNumberStatus == {"UNASSIGNED", "ALLOCATED", "ASSIGNED"}

AssignmentType == {"USER", "IVR", "QUEUE", "EXTERNAL"}

PhoneNumber(status, tenant_id) == [status |-> status, tenant_id |-> tenant_id]

DIDAssignment(phone_number_id, assigned_type, assigned_id, assigned_value) ==
    [phone_number_id |-> phone_number_id, assigned_type |-> assigned_type,
     assigned_id |-> assigned_id, assigned_value |-> assigned_value]

\* table users as the DID calls see it: user u exists for every tenant u
\* and belongs to it; NumTenants + 1 is the id of no user
UserIds == 1..NumTenants
TargetIds == 1..(NumTenants + 1)
UserTenant(u) == u

\* the destinations the calls are made with: (type, id, value)
DestinationArgs ==
    ({"USER"} \X (TargetIds \cup {NoTarget}) \X {NoValue})
    \cup ({"IVR"} \X {NoTarget, 1} \X {NoValue})
    \cup ({"USER", "QUEUE", "EXTERNAL"} \X {1} \X {"from-external"})
    \cup ({"EXTERNAL"} \X {NoTarget} \X {NoValue, "from-external"})

\* the table without its check constraint
phone_number_tenant_consistency_dropped(row) == TRUE

\* CheckConstraint phone_number_tenant_consistency
phone_number_tenant_consistency(row) ==
    \/ row.status = "UNASSIGNED" /\ row.tenant_id = NoTenantId
    \/ row.status \in {"ALLOCATED", "ASSIGNED"} /\ row.tenant_id # NoTenantId

\* CheckConstraint did_assignment_type_consistency
did_assignment_type_consistency(row) ==
    \/ /\ row.assigned_type \in {"USER", "IVR", "QUEUE"}
       /\ row.assigned_id # NoTarget
       /\ row.assigned_value = NoValue
    \/ /\ row.assigned_type = "EXTERNAL"
       /\ row.assigned_id = NoTarget
       /\ row.assigned_value # NoValue

\* the column without its unique constraint
uq_did_assignments_phone_number_id_dropped(rows, row) == TRUE

\* unique=True on did_assignments.phone_number_id: may row be inserted?
uq_did_assignments_phone_number_id(rows, row) ==
    \A r \in rows : r.phone_number_id # row.phone_number_id

\* the rows of did_assignments for a phone number
AssignmentsOf(rows, id) == {r \in rows : r.phone_number_id = id}

\* what a write returns: the tables after it, or the error it raised with
\* the tables as they were (the transaction is rolled back)
Written(pn, rows, logs) ==
    [outcome |-> "ok", phone_numbers |-> pn, did_assignments |-> rows,
     audit_logs |-> logs]

Rejected(error) ==
    [outcome |-> error, phone_numbers |-> phone_numbers,
     did_assignments |-> did_assignments, audit_logs |-> audit_logs]

\* the import logs one row for the whole request under a generated id
BulkOperationId == 0

\* the audit call that adds nothing to the session
log_skipped(logs, action, entity_type, entity_id) == logs

\* AuditService.log_create, log_update: session.add(audit_log) and
\* session.flush() in the session of the caller, no commit
log(logs, action, entity_type, entity_id) ==
    Append(logs, AuditLog(action, entity_type, entity_id))

\* the UPDATE of a phone_numbers row, subject to its check constraint,
\* flushed together with the audit row the call has added
UpdatePhone(rows, id, row, logs) ==
    IF phone_number_tenant_consistency(row)
    THEN Written([phone_numbers EXCEPT ![id] = row], rows, logs)
    ELSE Rejected("IntegrityError")

\* allocate_to_tenant lines 171-183
allocate_check(phone) ==
    IF phone = NoPhone THEN "Phone number not found"
    ELSE IF phone.status # "UNASSIGNED" THEN "expected UNASSIGNED"
    ELSE "ok"

\* allocate_to_tenant lines 188-208: status and tenant_id are both set
allocate_write(id, tenant_id) ==
    UpdatePhone(did_assignments, id, PhoneNumber("ALLOCATED", tenant_id),
                log(audit_logs, "UPDATE", "phone_number", id))

\* deallocate if it accepted every status
deallocate_check_any(phone) ==
    IF phone = NoPhone THEN "Phone number not found" ELSE "ok"

\* deallocate lines 237-255
deallocate_check(phone) ==
    IF phone = NoPhone THEN "Phone number not found"
    ELSE IF phone.status = "ASSIGNED" THEN "Cannot deallocate ASSIGNED"
    ELSE IF phone.status # "ALLOCATED" THEN "expected ALLOCATED"
    ELSE "ok"

\* deallocate lines 260-280: status and tenant_id are both set
deallocate_write(id) ==
    UpdatePhone(did_assignments, id, PhoneNumber("UNASSIGNED", NoTenantId),
                log(audit_logs, "UPDATE", "phone_number", id))

\* the validation if it accepted every combination of id and value
shape_check_skipped(assigned_type, assigned_id, assigned_value) == "ok"

\* assign_to_destination lines 336-361, the checks on the arguments alone:
\* USER, IVR and QUEUE take an id and no value, EXTERNAL a value and no id
shape_check(assigned_type, assigned_id, assigned_value) ==
    IF assigned_type \in {"USER", "IVR", "QUEUE"}
    THEN IF assigned_id = NoTarget THEN "assigned_id is required"
         ELSE IF assigned_value # NoValue THEN "assigned_value must be null"
         ELSE "ok"
    ELSE IF assigned_type = "EXTERNAL"
    THEN IF assigned_value = NoValue THEN "assigned_value is required"
         ELSE IF assigned_id # NoTarget THEN "assigned_id must be null"
         ELSE "ok"
    ELSE "Invalid assignment type"

\* the validation if it did not compare the tenants
assign_check_any_tenant(phone, assigned_type, assigned_id, assigned_value) ==
    IF phone = NoPhone THEN "Phone number not found"
    ELSE IF phone.status # "ALLOCATED" THEN "expected ALLOCATED"
    ELSE IF shape_check(assigned_type, assigned_id, assigned_value) # "ok"
    THEN shape_check(assigned_type, assigned_id, assigned_value)
    ELSE IF assigned_type = "USER" /\ assigned_id \notin UserIds
    THEN "User not found"
    ELSE "ok"

\* assign_to_destination lines 322-361
assign_check(phone, assigned_type, assigned_id, assigned_value) ==
    IF phone = NoPhone THEN "Phone number not found"
    ELSE IF phone.status # "ALLOCATED" THEN "expected ALLOCATED"
    ELSE IF shape_check(assigned_type, assigned_id, assigned_value) # "ok"
    THEN shape_check(assigned_type, assigned_id, assigned_value)
    ELSE IF assigned_type = "USER"
    THEN IF assigned_id \notin UserIds THEN "User not found"
         ELSE IF UserTenant(assigned_id) # phone.tenant_id
              THEN "User belongs to different tenant"
              ELSE "ok"
    ELSE "ok"

\* assign_to_destination lines 363-410: INSERT of the assignment, UPDATE of
\* the status column alone, commit; an IntegrityError rolls back
assign_write(id, assigned_type, assigned_id, assigned_value) ==
    LET row == DIDAssignment(id, assigned_type, assigned_id, assigned_value)
    IN  IF ~uq_did_assignments_phone_number_id(did_assignments, row)
        THEN Rejected("already assigned")
        ELSE IF ~did_assignment_type_consistency(row)
        THEN Rejected("IntegrityError")
        ELSE UpdatePhone(did_assignments \cup {row}, id,
                         [phone_numbers[id] EXCEPT !.status = "ASSIGNED"],
                         log(audit_logs, "CREATE", "did_assignment", id))

\* unassign lines 439-462; rows are the assignments read for the number
unassign_check(phone, rows) ==
    IF phone = NoPhone THEN "Phone number not found"
    ELSE IF phone.status # "ASSIGNED" THEN "expected ASSIGNED"
    ELSE IF rows = {} THEN "No assignment found"
    ELSE "ok"

\* unassign lines 464-492: the DELETE and the UPDATE are pending in the
\* session when AuditService.log_delete is called with the keyword metadata,
\* which it does not have, and without its parameter before_state: the
\* call raises TypeError before anything is flushed, nothing is committed
unassign_write(id, row) == Rejected("TypeError")

DidResult(op, outcome) == [op |-> op, outcome |-> outcome]

\* the arguments of a call on one phone number
CallArgs(call) == [call |-> call, dids |-> <<>>]

\* the type of the exception a call raises with the text outcome: every
\* validation raises ValueError; assign_to_destination re-raises the unique
\* violation as IntegrityError and any other database error as
\* RuntimeError, import_dids raises RuntimeError, the other operations let
\* the IntegrityError of the database through
ExceptionType(op, outcome) ==
    IF outcome \in {"ok", "errors", "none"} THEN "none"
    ELSE IF outcome = "already assigned" THEN "IntegrityError"
    ELSE IF outcome = "RuntimeError" THEN "RuntimeError"
    ELSE IF outcome = "TypeError" THEN "TypeError"
    ELSE IF outcome = "IntegrityError"
    THEN IF op \in {"assign", "import"} THEN "RuntimeError"
         ELSE "IntegrityError"
    ELSE "ValueError"

\* the tables and the outcome after a call that was served alone: check is
\* what its validation returned, written what its write would return
Served(op, check, written) ==
    /\ Len(audit_logs) < MaxAuditLogs
    /\ did_errors' = <<>>
    /\ IF check # "ok"
       THEN /\ did_result' = DidResult(op, check)
            /\ UNCHANGED <<phone_numbers, did_assignments, audit_logs>>
       ELSE /\ did_result' = DidResult(op, written.outcome)
            /\ phone_numbers' = written.phone_numbers
            /\ did_assignments' = written.did_assignments
            /\ audit_logs' = written.audit_logs

(***************************************************************************)
(* DIDService.import_dids.  A number is the sequence of its characters;    *)
(* the row of phone number id holds the number NumberOf(id).               *)
(***************************************************************************)
Digits == <<"0", "1", "2", "3", "4", "5", "6", "7", "8", "9">>

DigitSet == {Digits[i] : i \in DOMAIN Digits}

\* the number stored in the row of phone number id
NumberOf(id) == <<"+", "1", Digits[id + 1]>>

\* numbers that are not E.164: no plus sign, a leading zero, too short
Malformed == {<<"1", "2", "3">>, <<"+", "0", "1">>, <<"+", "1">>}

\* the numbers the import requests are made with
Numbers == {NumberOf(id) : id \in DidIds} \cup Malformed

\* the requests: 1 .. MaxBatch numbers in any order, repetitions included
Batches == UNION {[1..n -> Numbers] : n \in 1..MaxBatch}

\* E164_REGEX = ^\+[1-9]\d{1,14}$ matched against number
validate_e164(number) ==
    /\ Len(number) >= 3
    /\ Len(number) <= 16
    /\ number[1] = "+"
    /\ number[2] \in DigitSet \ {"0"}
    /\ \A i \in 3..Len(number) : number[i] \in DigitSet

DIDImportError(number, error) == [number |-> number, error |-> error]

\* one DIDImportError per item of dids that is in the set failing
ErrorsFor(dids, failing, error) ==
    LET fails(number) == number \in failing
        failed == SelectSeq(dids, fails)
    IN  [i \in DOMAIN failed |-> DIDImportError(failed[i], error)]

\* import_dids lines 73-97: the list of errors, first the numbers that are
\* not E.164, then the numbers that exist already, each in request order
import_errors(dids) ==
    LET numbers == {dids[i] : i \in DOMAIN dids}
        existing_set ==
            {number \in numbers :
                \E id \in DidIds : /\ phone_numbers[id] # NoPhone
                                   /\ NumberOf(id) = number}
    IN  ErrorsFor(dids, {number \in numbers : ~validate_e164(number)},
                  "Invalid E.164 format")
        \o ErrorsFor(dids, existing_set, "Duplicate number already exists")

\* table phone_numbers with an UNASSIGNED row for every number of dids that
\* has none yet
WithRows(dids) ==
    [id \in DidIds |->
        IF phone_numbers[id] = NoPhone /\ \E i \in DOMAIN dids : dids[i] = NumberOf(id)
        THEN PhoneNumber("UNASSIGNED", NoTenantId)
        ELSE phone_numbers[id]]

\* the import if it stored the numbers that passed
import_dids_partial(dids) ==
    LET errors == import_errors(dids)
    IN  [outcome |-> IF errors # <<>> THEN "errors" ELSE "ok",
         errors |-> errors, phone_numbers |-> WithRows(dids),
         audit_logs |-> log(audit_logs, "CREATE", "phone_number",
                            BulkOperationId)]

\* import_dids lines 71-142: with any error nothing is created and the
\* errors are returned; otherwise every number becomes an UNASSIGNED row,
\* unless the request holds a number twice: the flush then violates the
\* unique constraint on phone_numbers.number, the transaction is rolled
\* back and RuntimeError is raised
import_dids(dids) ==
    LET errors == import_errors(dids)
    IN  IF errors # <<>>
        THEN [outcome |-> "errors", errors |-> errors,
              phone_numbers |-> phone_numbers, audit_logs |-> audit_logs]
        ELSE IF \E i \in DOMAIN dids, j \in DOMAIN dids :
                    i # j /\ dids[i] = dids[j]
        THEN [outcome |-> "RuntimeError", errors |-> <<>>,
              phone_numbers |-> phone_numbers, audit_logs |-> audit_logs]
        ELSE [outcome |-> "ok", errors |-> <<>>,
              phone_numbers |-> WithRows(dids),
              audit_logs |-> log(audit_logs, "CREATE", "phone_number",
                                 BulkOperationId)]

\* DIDService.import_dids, served alone
ImportDids ==
    /\ Len(audit_logs) < MaxAuditLogs
    /\ \E dids \in Batches :
         LET r == import_dids(dids)
         IN  /\ did_result' = DidResult("import", r.outcome)
             /\ did_args' = [call |-> NoCall, dids |-> dids]
             /\ did_errors' = r.errors
             /\ phone_numbers' = r.phone_numbers
             /\ audit_logs' = r.audit_logs
    /\ UNCHANGED <<did_assignments, d_calls>>
    /\ UNCHANGED <<applyVars, writerVars, genVars, scanVars, pubVars, allocVars, userVars>>

\* DIDService.allocate_to_tenant, served alone
AllocateToTenant ==
    /\ \E id \in DidIds, tenant_id \in TenantIds :
         /\ Served("allocate", allocate_check(phone_numbers[id]),
                   allocate_write(id, tenant_id))
         /\ did_args' = CallArgs([NoCall EXCEPT !.op = "allocate", !.id = id,
                                                !.tenant_id = tenant_id])
    /\ UNCHANGED <<d_calls, applyVars, writerVars, genVars, scanVars, pubVars, allocVars, userVars>>

\* DIDService.deallocate, served alone
Deallocate ==
    /\ \E id \in DidIds :
         /\ Served("deallocate", deallocate_check(phone_numbers[id]),
                   deallocate_write(id))
         /\ did_args' = CallArgs([NoCall EXCEPT !.op = "deallocate",
                                                !.id = id])
    /\ UNCHANGED <<d_calls, applyVars, writerVars, genVars, scanVars, pubVars, allocVars, userVars>>

\* DIDService.assign_to_destination, served alone
AssignToDestination ==
    /\ \E id \in DidIds, dest \in DestinationArgs :
         /\ Served("assign",
                   assign_check(phone_numbers[id], dest[1], dest[2], dest[3]),
                   assign_write(id, dest[1], dest[2], dest[3]))
         /\ did_args' = CallArgs([op |-> "assign", id |-> id,
                                  tenant_id |-> NoTenantId,
                                  assigned_type |-> dest[1],
                                  assigned_id |-> dest[2],
                                  assigned_value |-> dest[3]])
    /\ UNCHANGED <<d_calls, applyVars, writerVars, genVars, scanVars, pubVars, allocVars, userVars>>

\* DIDService.unassign, served alone
Unassign ==
    /\ \E id \in DidIds :
         LET rows == AssignmentsOf(did_assignments, id)
         IN  /\ Served("unassign", unassign_check(phone_numbers[id], rows),
                       IF rows = {} THEN Rejected("No assignment found")
                       ELSE unassign_write(id, CHOOSE r \in rows : TRUE))
             /\ did_args' = CallArgs([NoCall EXCEPT !.op = "unassign",
                                                    !.id = id])
    /\ UNCHANGED <<d_calls, applyVars, writerVars, genVars, scanVars, pubVars, allocVars, userVars>>

NextDid ==
    \/ ImportDids
    \/ AllocateToTenant
    \/ Deallocate
    \/ AssignToDestination
    \/ Unassign

SpecDid == Init /\ [][NextDid]_vars

(***************************************************************************)
(* Properties of the DID life cycle                                        *)
(***************************************************************************)
\* the steps between neighbouring states ("NONE": the number is not
\* imported yet)
Neighbours ==
    {<<"NONE", "UNASSIGNED">>,
     <<"UNASSIGNED", "ALLOCATED">>, <<"ALLOCATED", "UNASSIGNED">>,
     <<"ALLOCATED", "ASSIGNED">>, <<"ASSIGNED", "ALLOCATED">>}

LastCall == did_args.call

\* C12: an assign of an ALLOCATED number to a USER that exists and belongs
\* to another tenant than the number fails with a validation error
\* (ValueError), creates no assignment and leaves the number as it was,
\* ALLOCATED.
C12_OtherTenantRefused ==
    [][(/\ did_result'.op = "assign"
        /\ did_args'.call.assigned_type = "USER"
        /\ did_args'.call.assigned_id \in UserIds
        /\ phone_numbers[did_args'.call.id].status = "ALLOCATED"
        /\ UserTenant(did_args'.call.assigned_id)
               # phone_numbers[did_args'.call.id].tenant_id)
       => /\ ExceptionType("assign", did_result'.outcome) = "ValueError"
          /\ did_assignments' = did_assignments
          /\ phone_numbers' = phone_numbers
          /\ phone_numbers'[did_args'.call.id].status = "ALLOCATED"]_vars

\* a number of one tenant was asked to be assigned to the user of another
\* and is still ALLOCATED without an assignment
C12_Witness ==
    /\ did_result = DidResult("assign", "User belongs to different tenant")
    /\ LastCall.assigned_type = "USER"
    /\ LastCall.assigned_id \in UserIds
    /\ LastCall.assigned_value = NoValue
    /\ phone_numbers[LastCall.id].status = "ALLOCATED"
    /\ phone_numbers[LastCall.id].tenant_id # UserTenant(LastCall.assigned_id)
    /\ AssignmentsOf(did_assignments, LastCall.id) = {}

\* the positions of the request dids whose number is not E.164 or is
\* stored in table pn already
FailingItems(dids, pn) ==
    {i \in DOMAIN dids :
        \/ ~validate_e164(dids[i])
        \/ \E id \in DidIds : pn[id] # NoPhone /\ NumberOf(id) = dids[i]}

\* C13: an import request in which a number, at whatever position, is not
\* E.164 or is stored already creates no row at all and returns a list of
\* errors that names every such number and no other.
C13_ImportAllOrNothing ==
    [][(/\ did_result'.op = "import"
        /\ FailingItems(did_args'.dids, phone_numbers) # {})
       => /\ phone_numbers' = phone_numbers
          /\ did_result'.outcome = "errors"
          /\ {did_errors'[k].number : k \in DOMAIN did_errors'}
                 = {did_args'.dids[i] :
                        i \in FailingItems(did_args'.dids, phone_numbers)}]_vars

\* a request of a new number followed by a number that is not E.164 was
\* refused: the new number has no row and the error names the other number
C13_Witness ==
    /\ did_result = DidResult("import", "errors")
    /\ Len(did_args.dids) = 2
    /\ \E id \in DidIds : /\ did_args.dids[1] = NumberOf(id)
                          /\ phone_numbers[id] = NoPhone
    /\ did_args.dids[2] \in Malformed
    /\ did_errors = <<DIDImportError(did_args.dids[2], "Invalid E.164 format")>>
    /\ \E id \in DidIds : phone_numbers[id] # NoPhone

\* the status a transition starts from
Predecessor(op) ==
    CASE op = "allocate" -> "UNASSIGNED"
      [] op = "deallocate" -> "ALLOCATED"
      [] op = "assign" -> "ALLOCATED"
      [] op = "unassign" -> "ASSIGNED"

\* a transition was just invoked on a stored number whose status is not
\* the transition's predecessor
InvalidTransition ==
    /\ did_result'.op \in {"allocate", "deallocate", "assign", "unassign"}
    /\ phone_numbers[did_args'.call.id] # NoPhone
    /\ phone_numbers[did_args'.call.id].status # Predecessor(did_result'.op)

\* what holds of such a call: it raises ValueError and changes nothing
RefusedUnchanged ==
    [][InvalidTransition
       => /\ ExceptionType(did_result'.op, did_result'.outcome) = "ValueError"
          /\ phone_numbers' = phone_numbers
          /\ did_assignments' = did_assignments]_vars

\* C14: a transition invoked on a number whose status is not the
\* transition's predecessor raises the typed error InvalidStateTransition
\* and leaves status, tenant and assignment as they were.
C14_TypedInvalidTransition ==
    [][InvalidTransition
       => /\ ExceptionType(did_result'.op, did_result'.outcome)
                 = "InvalidStateTransition"
          /\ phone_numbers' = phone_numbers
          /\ did_assignments' = did_assignments]_vars

\* table audit_logs after the step is the table before it and one more row
OneRowAppended ==
    /\ Len(audit_logs') = Len(audit_logs) + 1
    /\ SubSeq(audit_logs', 1, Len(audit_logs)) = audit_logs

\* the audit row each operation writes for phone number id
AuditRowOf(op, id) ==
    CASE op = "import" -> AuditLog("CREATE", "phone_number", BulkOperationId)
      [] op \in {"allocate", "deallocate"}
             -> AuditLog("UPDATE", "phone_number", id)
      [] op = "assign" -> AuditLog("CREATE", "did_assignment", id)
      [] op = "unassign" -> AuditLog("DELETE", "did_assignment", id)

\* C28: every DID call that succeeds (import, allocate, deallocate, assign,
\* unassign) commits, together with its change of the tables, exactly one
\* new row of audit_logs, the row of that operation, and no row of
\* audit_logs is ever changed or removed; a DID call that fails commits
\* neither a change of the tables nor an audit row.
C28_AuditedInSameTransaction ==
    [][/\ did_result'.outcome = "ok"
          => /\ OneRowAppended
             /\ audit_logs'[Len(audit_logs')]
                    = AuditRowOf(did_result'.op,
                                 IF did_result'.op = "import" THEN BulkOperationId
                                 ELSE did_args'.call.id)
       /\ did_result'.outcome # "ok"
          => UNCHANGED <<phone_numbers, did_assignments, audit_logs>>]_vars

\* a number was imported, allocated and assigned, each with its audit row;
\* the unassign that followed failed and left the tables and the audit
\* rows as they were
C28_Witness ==
    \E id \in DidIds :
        /\ did_result = DidResult("unassign", "TypeError")
        /\ phone_numbers[id].status = "ASSIGNED"
        /\ AssignmentsOf(did_assignments, id) # {}
        /\ audit_logs = <<AuditRowOf("import", id), AuditRowOf("allocate", id),
                          AuditRowOf("assign", id)>>

\* the same of the requests that overlap: whenever a table changes one
\* audit row is appended in the same commit, and audit_logs only grows by
\* one row at a time
AuditedWhenOverlapping ==
    [][/\ (phone_numbers' # phone_numbers
             \/ did_assignments' # did_assignments) => OneRowAppended
       /\ audit_logs' # audit_logs => OneRowAppended]_vars

\* unassign has just been served on a number that was ASSIGNED and had its
\* row in did_assignments
UnassignOfAssigned ==
    /\ did_result'.op = "unassign"
    /\ phone_numbers[did_args'.call.id] # NoPhone
    /\ phone_numbers[did_args'.call.id].status = "ASSIGNED"
    /\ AssignmentsOf(did_assignments, did_args'.call.id) # {}

\* C32: unassign of an ASSIGNED number succeeds: its row of did_assignments
\* is deleted, its status is ALLOCATED, and the number is still stored with
\* the tenant it had.
C32_UnassignReverts ==
    [][UnassignOfAssigned
       => LET id == did_args'.call.id
          IN  /\ did_result'.outcome = "ok"
              /\ AssignmentsOf(did_assignments', id) = {}
              /\ phone_numbers'[id]
                     = PhoneNumber("ALLOCATED", phone_numbers[id].tenant_id)]_vars

\* what that call does: it raises TypeError out of its audit call and
\* commits nothing, the number stays ASSIGNED with its row
UnassignRaises ==
    [][UnassignOfAssigned
       => /\ did_result'.outcome = "TypeError"
          /\ UNCHANGED <<phone_numbers, did_assignments, audit_logs>>]_vars

\* the two shapes of a row of did_assignments
ValidShape(r) ==
    \/ /\ r.assigned_type \in {"USER", "IVR", "QUEUE"}
       /\ r.assigned_id \in TargetIds
       /\ r.assigned_value = NoValue
    \/ /\ r.assigned_type = "EXTERNAL"
       /\ r.assigned_id = NoTarget
       /\ r.assigned_value # NoValue

\* an assign has just been served on an ALLOCATED number with arguments
\* that have neither shape
MixedAssign ==
    /\ did_result'.op = "assign"
    /\ phone_numbers[did_args'.call.id] # NoPhone
    /\ phone_numbers[did_args'.call.id].status = "ALLOCATED"
    /\ ~ValidShape(did_args'.call)

\* C33: every row of did_assignments, in every state, has one of the two
\* shapes: USER, IVR or QUEUE with an id and no value, or EXTERNAL with a
\* value and no id; an assign whose arguments mix the shapes is refused by
\* the validation (ValueError) and stores nothing.
C33_AssignmentShapes ==
    /\ [](\A r \in did_assignments : ValidShape(r))
    /\ [][MixedAssign
          => /\ ExceptionType("assign", did_result'.outcome) = "ValueError"
             /\ UNCHANGED <<phone_numbers, did_assignments, audit_logs>>]_vars

\* a row of the EXTERNAL shape is stored, and the last assign, which gave
\* a USER a value as well, was refused
C33_Witness ==
    /\ \E r \in did_assignments : r.assigned_type = "EXTERNAL"
    /\ did_result = DidResult("assign", "assigned_value must be null")
    /\ did_args.call.assigned_type = "USER"
    /\ did_args.call.assigned_id # NoTarget
    /\ did_args.call.assigned_value # NoValue
    /\ phone_numbers[did_args.call.id].status = "ALLOCATED"

(***************************************************************************)
(* Concurrent DID requests: each request has its own session; what it read *)
(* and validated may be stale when its flush and commit write.  No         *)
(* operation of DIDService locks the row it reads.  The requests arrive    *)
(* when import_dids has stored some of the numbers; at most NumSessions of *)
(* them are in progress at once.                                           *)
(***************************************************************************)
Call(op, id, tenant_id, assigned_type, assigned_id, assigned_value) ==
    [op |-> op, id |-> id, tenant_id |-> tenant_id,
     assigned_type |-> assigned_type, assigned_id |-> assigned_id,
     assigned_value |-> assigned_value]

\* a request that has validated and goes on to write
Validated(call) == [pc |-> "write", call |-> call]

\* a request whose write was rejected: the error is on its way to the
\* endpoint, of the call only its operation and its number still matter
Failed(call, error) ==
    [pc |-> error, call |-> [NoCall EXCEPT !.op = call.op, !.id = call.id]]

\* the requests in progress
InProgress == BagToSet(d_calls)

\* the first half of a call: it raises what its validation returned
\* (nothing is left of the request), or goes on to write
Begin(call, check) ==
    /\ BagCardinality(d_calls) < NumSessions
    /\ Len(audit_logs) + BagCardinality(d_calls) < MaxAuditLogs
    /\ IF check # "ok"
       THEN UNCHANGED d_calls
       ELSE d_calls' = d_calls (+) SetToBag({Validated(call)})
    /\ UNCHANGED <<phone_numbers, did_assignments, audit_logs, did_result,
                   did_args, did_errors>>
    /\ UNCHANGED <<applyVars, writerVars, genVars, scanVars, pubVars, allocVars, userVars>>

\* the second half of a call: flush and commit, and the call returns; or
\* the write is rejected and the transaction is rolled back
Commit(d, op, written) ==
    /\ d \in InProgress
    /\ d.pc = "write"
    /\ d.call.op = op
    /\ phone_numbers' = written.phone_numbers
    /\ did_assignments' = written.did_assignments
    /\ audit_logs' = written.audit_logs
    /\ d_calls' = IF written.outcome = "ok"
                  THEN d_calls (-) SetToBag({d})
                  ELSE (d_calls (-) SetToBag({d}))
                           (+) SetToBag({Failed(d.call, written.outcome)})
    /\ UNCHANGED <<did_result, did_args, did_errors>>
    /\ UNCHANGED <<applyVars, writerVars, genVars, scanVars, pubVars, allocVars, userVars>>

\* the endpoint turns the error of a rejected write into its response
DidRaised(d) ==
    /\ d \in InProgress
    /\ d.pc # "write"
    /\ d_calls' = d_calls (-) SetToBag({d})
    /\ UNCHANGED <<phone_numbers, did_assignments, audit_logs, did_result,
                   did_args, did_errors>>
    /\ UNCHANGED <<applyVars, writerVars, genVars, scanVars, pubVars, allocVars, userVars>>

\* allocate_to_tenant lines 171-183
BeginAllocate ==
    \E id \in DidIds, tenant_id \in TenantIds :
        Begin(Call("allocate", id, tenant_id, "none", NoTarget, NoValue),
              allocate_check(phone_numbers[id]))

\* allocate_to_tenant lines 185-208
CommitAllocate(d) ==
    Commit(d, "allocate", allocate_write(d.call.id, d.call.tenant_id))

\* deallocate lines 237-255
BeginDeallocate ==
    \E id \in DidIds :
        Begin(Call("deallocate", id, NoTenantId, "none", NoTarget, NoValue),
              deallocate_check(phone_numbers[id]))

\* deallocate lines 257-280
CommitDeallocate(d) ==
    Commit(d, "deallocate", deallocate_write(d.call.id))

\* the destinations the overlapping calls are made with: a user and an
\* external number (a call with a destination that its validation rejects
\* ends before it writes, whatever the other requests do)
RacingDestinations ==
    ({"USER"} \X UserIds \X {NoValue})
    \cup ({"EXTERNAL"} \X {NoTarget} \X {"from-external"})

\* assign_to_destination lines 322-361
BeginAssign ==
    \E id \in DidIds, dest \in RacingDestinations :
        Begin(Call("assign", id, NoTenantId, dest[1], dest[2], dest[3]),
              assign_check(phone_numbers[id], dest[1], dest[2], dest[3]))

\* assign_to_destination lines 363-410
CommitAssign(d) ==
    Commit(d, "assign",
           assign_write(d.call.id, d.call.assigned_type,
                        d.call.assigned_id, d.call.assigned_value))

\* unassign lines 439-462: the call keeps the assignment it has read
BeginUnassign ==
    \E id \in DidIds :
        LET rows == AssignmentsOf(did_assignments, id)
            row == IF rows = {}
                   THEN DIDAssignment(id, "none", NoTarget, NoValue)
                   ELSE CHOOSE r \in rows : TRUE
        IN  Begin(Call("unassign", id, NoTenantId, row.assigned_type,
                       row.assigned_id, row.assigned_value),
                  unassign_check(phone_numbers[id], rows))

\* unassign lines 464-492
CommitUnassign(d) ==
    Commit(d, "unassign",
           unassign_write(d.call.id,
                          DIDAssignment(d.call.id, d.call.assigned_type,
                                        d.call.assigned_id,
                                        d.call.assigned_value)))

\* the tables after the imports: every number is absent or UNASSIGNED
InitDidTxn ==
    /\ ApplyInit
    /\ dialplan = NoFile
    /\ AllocInit
    /\ UserInit
    /\ phone_numbers \in
           [DidIds -> {NoPhone, PhoneNumber("UNASSIGNED", NoTenantId)}]
    /\ did_assignments = {}
    /\ audit_logs = IF \E id \in DidIds : phone_numbers[id] # NoPhone
                    THEN log(<<>>, "CREATE", "phone_number", BulkOperationId)
                    ELSE <<>>
    /\ did_result = NoDidResult
    /\ did_args = NoArgs
    /\ did_errors = <<>>
    /\ d_calls = EmptyBag
    /\ WriterInit
    /\ GenInit
    /\ PubInit
    /\ ScanInit

NextDidTxn ==
    \/ BeginAllocate
    \/ \E d \in InProgress : CommitAllocate(d)
    \/ BeginDeallocate
    \/ \E d \in InProgress : CommitDeallocate(d)
    \/ BeginAssign
    \/ \E d \in InProgress : CommitAssign(d)
    \/ BeginUnassign
    \/ \E d \in InProgress : CommitUnassign(d)
    \/ \E d \in InProgress : DidRaised(d)

SpecDidTxn == InitDidTxn /\ [][NextDidTxn]_vars

\* C10: in every state the committed tables can be in, also when DID
\* requests overlap, a phone number that is UNASSIGNED has no tenant and a
\* phone number that is ALLOCATED or ASSIGNED has one.
C10_TenantConsistency ==
    \A id \in DidIds :
        phone_numbers[id] # NoPhone =>
            /\ phone_numbers[id].status \in PhoneNumberStatus
            /\ phone_numbers[id].status = "UNASSIGNED"
                   => phone_numbers[id].tenant_id = NoTenantId
            /\ phone_numbers[id].status \in {"ALLOCATED", "ASSIGNED"}
                   => phone_numbers[id].tenant_id \in TenantIds

\* an assign that validated an ALLOCATED number wrote after a deallocate of
\* the same number had committed: its write was refused
C10_Witness ==
    \E d \in InProgress :
        /\ d.pc = "IntegrityError"
        /\ d.call.op = "assign"
        /\ phone_numbers[d.call.id] = PhoneNumber("UNASSIGNED", NoTenantId)

\* C11: in every state the committed tables can be in, however assign and
\* unassign calls follow and overlap each other, a phone number has at most
\* one row in did_assignments.
C11_AtMostOneAssignment ==
    \A id \in DidIds :
        Cardinality(AssignmentsOf(did_assignments, id)) <= 1

\* two assigns validated the same ALLOCATED number; one has committed its
\* row, the INSERT of the other was refused
C11_Witness ==
    \E d \in InProgress :
        /\ d.pc = "already assigned"
        /\ d.call.op = "assign"
        /\ Cardinality(AssignmentsOf(did_assignments, d.call.id)) = 1
        /\ phone_numbers[d.call.id].status = "ASSIGNED"

\* the request left of an assign of phone number id whose INSERT the unique
\* constraint has refused
RefusedAssign(id) ==
    Failed([NoCall EXCEPT !.op = "assign", !.id = id], "already assigned")

\* the write of an assign of phone number id has just been refused by the
\* unique constraint: another assign of the number has committed its row
\* since this one validated
LosesRace(id) ==
    CopiesIn(RefusedAssign(id), d_calls')
        > CopiesIn(RefusedAssign(id), d_calls)

\* C30: of two assigns that race on one ALLOCATED number one commits; the
\* other one fails with the typed conflict AlreadyAssigned, not with a
\* database error, and leaves the number ASSIGNED with the one row of the
\* winner.
C30_LoserGetsAlreadyAssigned ==
    [][\A id \in DidIds :
          LosesRace(id) =>
              /\ ExceptionType("assign", "already assigned") = "AlreadyAssigned"
              /\ phone_numbers'[id].status = "ASSIGNED"
              /\ Cardinality(AssignmentsOf(did_assignments', id)) = 1
              /\ UNCHANGED <<phone_numbers, did_assignments, audit_logs>>]_vars

\* what the loser does get: the IntegrityError of the database, raised
\* again with another message; the row of the winner stays the only one
LoserGetsIntegrityError ==
    [][\A id \in DidIds :
          LosesRace(id) =>
              /\ ExceptionType("assign", "already assigned") = "IntegrityError"
              /\ Cardinality(AssignmentsOf(did_assignments', id)) = 1
              /\ UNCHANGED <<phone_numbers, did_assignments, audit_logs>>]_vars

\* the allocate of phone number id to tenant t that has validated
ValidatedAllocate(id, t) ==
    Validated(Call("allocate", id, t, "none", NoTarget, NoValue))

\* that allocate has just committed and returns the number as allocated
\* to tenant t
AllocateCommits(id, t) ==
    /\ CopiesIn(ValidatedAllocate(id, t), d_calls')
           < CopiesIn(ValidatedAllocate(id, t), d_calls)
    /\ audit_logs' # audit_logs

\* C31: of two allocates of one UNASSIGNED number to different tenants at
\* most one succeeds: no allocate commits (and reports the number as
\* allocated to its tenant) on a number that another request has allocated
\* to another tenant in the meantime.
C31_OneAllocateWins ==
    [][\A id \in DidIds, t \in TenantIds :
          AllocateCommits(id, t) =>
              ~ /\ phone_numbers[id].status = "ALLOCATED"
                /\ phone_numbers[id].tenant_id # t]_vars

\* what the second allocate does: its UPDATE has no condition on the status
\* it has read, so it commits and the number belongs to the last writer
LastAllocateWins ==
    [][\A id \in DidIds, t \in TenantIds :
          AllocateCommits(id, t) =>
              phone_numbers'[id] = PhoneNumber("ALLOCATED", t)]_vars

HasAssignment(id) == \E r \in did_assignments : r.phone_number_id = id

\* C39: in every committed state a phone number has status ASSIGNED if and
\* only if a DIDAssignment row exists for it.
C39_AssignedIffRecord ==
    \A id \in DidIds :
        phone_numbers[id] # NoPhone =>
            (phone_numbers[id].status = "ASSIGNED" <=> HasAssignment(id))

\* one direction holds also when requests overlap: an ASSIGNED number has
\* its row
AssignedHasRecord ==
    \A id \in DidIds :
        (phone_numbers[id] # NoPhone /\ phone_numbers[id].status = "ASSIGNED")
            => HasAssignment(id)

(***************************************************************************)
(* AtomicFileWriter.write_atomic (src/src/config_generator/                *)
(* atomic_writer.py).  The content of a file is the sequence of the blocks *)
(* that have been written to it.  The directory holds the target file and  *)
(* the temporary file of the call in progress; the temporary files of      *)
(* earlier calls have other names and are not kept.  Any step that does    *)
(* I/O may raise, and the process may be stopped at any step.              *)
(***************************************************************************)
Blocks == {"a", "b"}

\* the contents a file can hold: 0 .. MaxLen blocks
Contents == UNION {[1..n -> Blocks] : n \in 0..MaxLen}

\* what the steps raise
Raised == {"PermissionError", "OSError", "Exception"}

\* the writer if it wrote the content to the target itself
temporary_file_is_target(target) == target

\* tempfile.NamedTemporaryFile(dir=target_dir, ...): the file the content
\* is written to is a new file next to the target
temporary_file(target) == "tmp"

\* lines 81-114, the same in every except clause: if tmp_path is bound and
\* the file exists it is unlinked; an error of the unlink is swallowed
\* (ok = FALSE) and the file stays
cleanup(dir, tmp_path, ok) ==
    IF tmp_path /\ dir[temporary_file("target")] # Absent
    THEN IF ok
         THEN [fs |-> [dir EXCEPT ![temporary_file("target")] = Absent],
               unlink |-> "ok"]
         ELSE [fs |-> dir, unlink |-> "failed"]
    ELSE [fs |-> dir, unlink |-> "none"]

\* the error the except clause raises for the error it caught
reraised(caught) == IF caught = "PermissionError" THEN "PermissionError" ELSE "IOError"

\* lines 38-45: the call; a path that is not absolute raises ValueError
WriteAtomic ==
    /\ w_pc = "idle"
    /\ \E content \in Contents, isabs \in BOOLEAN :
         /\ w_content' = content
         /\ w_exc' = IF isabs THEN "none" ELSE "ValueError"
         /\ w_pc' = IF isabs THEN "mkdir" ELSE "raised"
    /\ w_before' = fs["target"]
    /\ w_tmp_path' = FALSE
    /\ w_unlink' = "none"
    /\ fs' = [fs EXCEPT !["tmp"] = Absent]
    /\ UNCHANGED <<applyVars, allocVars, userVars, didVars, genVars, scanVars, pubVars>>

\* line 49: target_dir.mkdir(parents=True, exist_ok=True)
Mkdir ==
    /\ w_pc = "mkdir"
    /\ w_pc' = "create"
    /\ UNCHANGED <<w_content, w_tmp_path, w_exc, w_unlink, w_before, fs>>
    /\ UNCHANGED <<applyVars, allocVars, userVars, didVars, genVars, scanVars, pubVars>>

\* lines 54-62: the temporary file is created empty, tmp_path is bound
CreateTemp ==
    /\ w_pc = "create"
    /\ fs' = [fs EXCEPT ![temporary_file("target")] = <<>>]
    /\ w_tmp_path' = TRUE
    /\ w_pc' = "write"
    /\ UNCHANGED <<w_content, w_exc, w_unlink, w_before>>
    /\ UNCHANGED <<applyVars, allocVars, userVars, didVars, genVars, scanVars, pubVars>>

\* line 66: tmp_file.write(content), block after block
WriteBlock ==
    /\ w_pc = "write"
    /\ Len(fs[temporary_file("target")]) < Len(w_content)
    /\ fs' = [fs EXCEPT ![temporary_file("target")] =
                 Append(@, w_content[Len(@) + 1])]
    /\ UNCHANGED <<w_pc, w_content, w_tmp_path, w_exc, w_unlink, w_before>>
    /\ UNCHANGED <<applyVars, allocVars, userVars, didVars, genVars, scanVars, pubVars>>

\* lines 67-68: flush and fsync once everything is written
Sync ==
    /\ w_pc = "write"
    /\ Len(fs[temporary_file("target")]) = Len(w_content)
    /\ w_pc' = "replace"
    /\ UNCHANGED <<w_content, w_tmp_path, w_exc, w_unlink, w_before, fs>>
    /\ UNCHANGED <<applyVars, allocVars, userVars, didVars, genVars, scanVars, pubVars>>

\* line 74: os.replace(tmp_path, target_path), one atomic rename; the call
\* returns
Replace ==
    /\ w_pc = "replace"
    /\ fs' = [f \in {"target", "tmp"} |->
                 IF f = "target" THEN fs[temporary_file("target")]
                 ELSE Absent]
    /\ w_pc' = "done"
    /\ UNCHANGED <<w_content, w_tmp_path, w_exc, w_unlink, w_before>>
    /\ UNCHANGED <<applyVars, allocVars, userVars, didVars, genVars, scanVars, pubVars>>

\* mkdir, the creation of the temporary file, write, flush, fsync or
\* replace raises
WriterRaise ==
    /\ w_pc \in {"mkdir", "create", "write", "replace"}
    /\ \E caught \in Raised : w_exc' = caught
    /\ w_pc' = "except"
    /\ UNCHANGED <<w_content, w_tmp_path, w_unlink, w_before, fs>>
    /\ UNCHANGED <<applyVars, allocVars, userVars, didVars, genVars, scanVars, pubVars>>

\* lines 81-114: the except clause that matches cleans up and raises
Except ==
    /\ w_pc = "except"
    /\ \E ok \in BOOLEAN :
         LET r == cleanup(fs, w_tmp_path, ok)
         IN  /\ fs' = r.fs
             /\ w_unlink' = r.unlink
    /\ w_exc' = reraised(w_exc)
    /\ w_pc' = "raised"
    /\ UNCHANGED <<w_content, w_tmp_path, w_before>>
    /\ UNCHANGED <<applyVars, allocVars, userVars, didVars, genVars, scanVars, pubVars>>

\* the process is stopped during the call, before the replace has happened
WriterCrash ==
    /\ w_pc \in {"mkdir", "create", "write", "replace", "except"}
    /\ w_pc' = "crashed"
    /\ UNCHANGED <<w_content, w_tmp_path, w_exc, w_unlink, w_before, fs>>
    /\ UNCHANGED <<applyVars, allocVars, userVars, didVars, genVars, scanVars, pubVars>>

\* the caller goes on (after a stop: the process is started again)
WriterReturn ==
    /\ w_pc \in {"done", "raised", "crashed"}
    /\ w_pc' = "idle"
    /\ w_content' = <<>>
    /\ w_tmp_path' = FALSE
    /\ w_exc' = "none"
    /\ w_unlink' = "none"
    /\ w_before' = Absent
    /\ fs' = [fs EXCEPT !["tmp"] = Absent]
    /\ UNCHANGED <<applyVars, allocVars, userVars, didVars, genVars, scanVars, pubVars>>

NextWriter ==
    \/ WriteAtomic
    \/ Mkdir
    \/ CreateTemp
    \/ WriteBlock
    \/ Sync
    \/ Replace
    \/ WriterRaise
    \/ Except
    \/ WriterCrash
    \/ WriterReturn

SpecWriter == Init /\ [][NextWriter]_vars

\* C15: at every instant of a call the target file holds what it held
\* before the call, complete, or, once the replace has happened, the
\* complete new content; a call that is stopped before its replace leaves
\* the target as it was.
C15_OldOrNewContent ==
    w_pc # "idle" =>
        \/ fs["target"] = w_before
        \/ w_pc = "done" /\ fs["target"] = w_content

\* the process was stopped when the temporary file held a part of the
\* content; the target file, which existed, is as it was
C15_Witness ==
    /\ w_pc = "crashed"
    /\ w_before \in Contents
    /\ w_before # w_content
    /\ fs["target"] = w_before
    /\ Len(fs["tmp"]) > 0
    /\ Len(fs["tmp"]) < Len(w_content)

\* the errors write_atomic raises
Typed == {"ValueError", "PermissionError", "IOError"}

\* C16 as stated: when the call has raised, the target file is as it was,
\* no temporary file is left and the error is one of the typed errors.
C16_NoTempLeft ==
    w_pc = "raised" =>
        /\ fs["target"] = w_before
        /\ fs["tmp"] = Absent
        /\ w_exc \in Typed

\* what holds of a call that has raised: the target file is as it was, the
\* error is one of the typed errors, and a temporary file is left only if
\* its removal was tried and failed
NoTempLeftUnlessUnlinkFailed ==
    w_pc = "raised" =>
        /\ fs["target"] = w_before
        /\ w_exc \in Typed
        /\ fs["tmp"] # Absent => w_unlink = "failed"

(***************************************************************************)
(* Configuration generator (src/src/config_generator/): the text is the    *)
(* sequence of its blocks, a block being a context line or one rule        *)
(* ("exten => pattern,1,..." with its "same =>" lines).  InboundRouter is  *)
(* imported by dialplan_generator.py but its module is not part of the     *)
(* sources; it is modelled as the specification describes it: the          *)
(* [from-trunk] context with one rule per DID assignment.                  *)
(***************************************************************************)
\* gated: the rule starts with a GotoIf on a policy key
Block(section, tenant, pattern, ext, gated) ==
    [section |-> section, tenant |-> tenant, pattern |-> pattern,
     ext |-> ext, gated |-> gated]

\* "\n".join of the first n parts
RECURSIVE ConcatTo(_, _)
ConcatTo(seqs, n) ==
    IF n = 0 THEN <<>> ELSE ConcatTo(seqs, n - 1) \o seqs[n]

Concat(seqs) == ConcatTo(seqs, Len(seqs))

\* Python truth value of an argument: None and [] are false
truthy(arg) == arg.given /\ arg.items # <<>>

\* "users_with_extensions or []"
or_empty(arg) == IF truthy(arg) THEN arg.items ELSE <<>>

\* DialplanGenerator._generate_header
generate_header == <<Block("header", 0, ";", 0, FALSE)>>

\* InboundRouter.generate: one rule per DID assignment
InboundRouter_generate(assignment_dicts, user_dicts) ==
    <<Block("from-trunk", 0, "[from-trunk]", 0, FALSE)>>
    \o [i \in DOMAIN assignment_dicts |->
           Block("from-trunk", 0, "did", 0, FALSE)]

\* ExtensionRouter.generate lines 70-111: the rule of one user; a user
\* without extension is skipped
user_rule(user) ==
    IF user.extension = 0
    THEN <<>>
    ELSE <<Block("internal", user.tenant_id, "exten", user.extension, FALSE)>>

IsUserOf(user, tenant_id) == user.tenant_id # 0 /\ user.tenant_id = tenant_id

\* ExtensionRouter.generate: for each tenant of the list its context line,
\* the rules of its users and the fallback rule
ExtensionRouter_generate(user_dicts, tenant_dicts) ==
    Concat([i \in DOMAIN tenant_dicts |->
        <<Block("internal", tenant_dicts[i], "[internal]", 0, FALSE)>>
        \o Concat([j \in DOMAIN user_dicts |->
                      IF IsUserOf(user_dicts[j], tenant_dicts[i])
                      THEN user_rule(user_dicts[j]) ELSE <<>>])
        \o <<Block("internal", tenant_dicts[i], "_X.", 0, FALSE)>>])

\* DialplanGenerator._generate_simple_internal
generate_simple_internal(user_dicts) ==
    <<Block("synergy-internal", 0, "[synergy-internal]", 0, FALSE)>>
    \o Concat([j \in DOMAIN user_dicts |->
                  IF user_dicts[j].extension = 0 THEN <<>>
                  ELSE <<Block("synergy-internal", 0, "exten",
                               user_dicts[j].extension, FALSE)>>])

\* OutboundPolicyGenerator.generate lines 47-102
OutboundPolicyGenerator_generate(policies, user_dicts) ==
    <<Block("outbound", 0, "[outbound]", 0, FALSE),
      Block("outbound", 0, "_911", 0, FALSE),
      Block("outbound", 0, "_1NXXNXXXXXX", 0, TRUE),
      Block("outbound", 0, "_NXXNXXXXXX", 0, FALSE),
      Block("outbound", 0, "_011.", 0, TRUE),
      Block("outbound", 0, "_1800NXXXXXX", 0, FALSE),
      Block("outbound", 0, "_1900NXXXXXX", 0, FALSE),
      Block("outbound", 0, "_X.", 0, FALSE)>>

\* DialplanGenerator.generate_config lines 56-98
DialplanGenerator_generate_config(users_with_extensions, dids, policies, tenant_dicts, assignment_dicts) ==
    generate_header
    \o (IF assignment_dicts.given
        THEN InboundRouter_generate(assignment_dicts.items,
                                    or_empty(users_with_extensions))
        ELSE IF truthy(dids) /\ truthy(users_with_extensions)
        THEN InboundRouter_generate(dids.items, users_with_extensions.items)
        ELSE <<>>)
    \o (IF truthy(users_with_extensions) /\ truthy(tenant_dicts)
        THEN ExtensionRouter_generate(users_with_extensions.items,
                                      tenant_dicts.items)
        ELSE IF truthy(users_with_extensions)
        THEN generate_simple_internal(users_with_extensions.items)
        ELSE <<>>)
    \o (IF truthy(policies)
        THEN OutboundPolicyGenerator_generate(policies.items,
                                              or_empty(users_with_extensions))
        ELSE <<>>)

\* the user dicts a call is made with: tenant_id 0 and extension 0 stand
\* for a missing value
GenUsers == [tenant_id : TenantIds \cup {0}, extension : {0, EXT_FLOOR}]

Lists(S, n) == UNION {[1..k -> S] : k \in 0..n}

UserLists == Lists(GenUsers, MaxSnapshotUsers)

\* lists of distinct tenants
TenantLists ==
    {l \in Lists(TenantIds, NumTenants) :
        \A i \in DOMAIN l, j \in DOMAIN l : i # j => l[i] # l[j]}

Optional(lists) == {None} \cup {Arg(TRUE, l) : l \in lists}

\* a call of generate_config with any arguments (the function is pure:
\* one call is looked at)
GenerateConfig ==
    /\ g_caller = "none"
    /\ \E users_with_extensions \in Optional(UserLists),
          dids \in Optional({<<"did">>}),
          policies \in Optional({<<>>, <<"policy">>}),
          tenant_dicts \in Optional(TenantLists),
          assignment_dicts \in Optional({<<>>, <<"did">>}) :
         /\ g_args' = [users_with_extensions |-> users_with_extensions,
                       dids |-> dids, policies |-> policies,
                       tenants |-> tenant_dicts,
                       did_assignments |-> assignment_dicts]
         /\ g_config' = DialplanGenerator_generate_config(
                            users_with_extensions, dids, policies, tenant_dicts,
                            assignment_dicts)
    /\ g_caller' = "direct"
    /\ UNCHANGED <<g_db, g_scope, g_before>>
    /\ UNCHANGED <<applyVars, allocVars, userVars, didVars, writerVars,
                   pubVars, scanVars>>

\* the users of the database: each has an extension and the tenant of a
\* row of the tenants table
SnapshotUsers(tenant_dicts) ==
    {l \in UserLists :
        \A i \in DOMAIN l :
            /\ l[i].extension # 0
            /\ \E j \in DOMAIN tenant_dicts : tenant_dicts[j] = l[i].tenant_id}

\* the ASSIGNED numbers with a DID assignment, each given by the tenant of
\* its phone number, which is a row of the tenants table
SnapshotDids(tenant_dicts) ==
    {l \in Lists(TenantIds, MaxSnapshotDids) :
        \A i \in DOMAIN l :
            \E j \in DOMAIN tenant_dicts : tenant_dicts[j] = l[i]}

\* lines 149-170: one dict per DID assignment that was loaded
did_assignments_data(did_tenants) == [i \in DOMAIN did_tenants |-> "did"]

\* the call of apply_configuration_safe, lines 103-188: the users, the
\* tenants and the DID assignments that were loaded, no policies
GenerateForApply ==
    /\ g_caller = "none"
    /\ \E tenant_dicts \in TenantLists :
       \E user_data_list \in SnapshotUsers(tenant_dicts),
          did_tenants \in SnapshotDids(tenant_dicts) :
         LET did_data_list == did_assignments_data(did_tenants)
         IN
         /\ g_args' = [users_with_extensions |-> Arg(TRUE, user_data_list),
                       dids |-> None, policies |-> None,
                       tenants |-> Arg(TRUE, tenant_dicts),
                       did_assignments |-> Arg(TRUE, did_data_list)]
         /\ g_config' = DialplanGenerator_generate_config(
                            Arg(TRUE, user_data_list), None, None,
                            Arg(TRUE, tenant_dicts),
                            Arg(TRUE, did_data_list))
         /\ g_db' = [tenants |-> tenant_dicts, users |-> user_data_list,
                     did_assignments |-> did_tenants]
    /\ g_caller' = "apply"
    /\ g_scope' = NoTenantId
    /\ g_before' = g_config
    /\ UNCHANGED <<applyVars, allocVars, userVars, didVars, writerVars,
                   pubVars, scanVars>>

NextGen ==
    \/ GenerateConfig
    \/ GenerateForApply

SpecGen == Init /\ [][NextGen]_vars

IsOutboundRule(b) == b.section = "outbound" /\ b.pattern # "[outbound]"

\* the patterns of the outbound rules of a text, in the order of the text
OutboundPatterns(config) ==
    LET rules == SelectSeq(config, IsOutboundRule)
    IN  [i \in DOMAIN rules |-> rules[i].pattern]

\* emergency, long distance, local, international, toll-free, premium
\* rate, catch-all deny
PolicyOrder ==
    <<"_911", "_1NXXNXXXXXX", "_NXXNXXXXXX", "_011.", "_1800NXXXXXX",
      "_1900NXXXXXX", "_X.">>

\* the outbound rules of the text are the seven rules in their order, the
\* emergency rule has no policy check, and the catch-all deny is the last
\* block of the text
OutboundInOrder(config) ==
    /\ OutboundPatterns(config) = PolicyOrder
    /\ \A i \in DOMAIN config :
           (config[i].section = "outbound" /\ config[i].pattern = "_911")
               => ~config[i].gated
    /\ config[Len(config)] = Block("outbound", 0, "_X.", 0, FALSE)

\* C26: the configuration an apply generates has the outbound rules in the
\* order emergency, long distance, local, international, toll-free,
\* premium rate, catch-all deny; the emergency rule has no policy check
\* and the catch-all deny is the last block of the text.
C26_OutboundOrderInApply ==
    g_caller = "apply" => OutboundInOrder(g_config)

\* what the generator does: the outbound rules are there, and in that
\* order, when the call is given policies
OutboundOrderWithPolicies ==
    g_caller # "none" =>
        IF truthy(g_args.policies)
        THEN OutboundInOrder(g_config)
        ELSE OutboundPatterns(g_config) = <<>>

\* the internal contexts of tenant t in a text
ContextsOf(config, t) ==
    {i \in DOMAIN config :
        config[i] = Block("internal", t, "[internal]", 0, FALSE)}

\* C27: for every snapshot, each tenant of the snapshot has its own
\* internal routing context in the generated configuration, also when it
\* has no user and when no tenant has a user.
C27_EveryTenantHasSection ==
    (g_caller # "none" /\ g_args.tenants.given) =>
        \A i \in DOMAIN g_args.tenants.items :
            Cardinality(ContextsOf(g_config, g_args.tenants.items[i])) = 1

\* what the generator does: every tenant has its context when the
\* snapshot holds at least one user, and no tenant has one when it holds
\* none
TenantSectionsNeedAUser ==
    (g_caller # "none" /\ g_args.tenants.given) =>
        \A i \in DOMAIN g_args.tenants.items :
            Cardinality(ContextsOf(g_config, g_args.tenants.items[i])) =
                IF truthy(g_args.users_with_extensions) THEN 1 ELSE 0

(***************************************************************************)
(* One apply, step by step on its queries and its files                    *)
(* (apply_configuration_safe, src/src/services/apply_service_enhanced.py,  *)
(* with backup_configuration and rollback_configuration of                 *)
(* src/src/services/apply_service.py).  The attempt holds the lock; the    *)
(* other requests (users, tenants, DIDs) commit at any time, and Asterisk  *)
(* may read the live file at any time.  The database is named by the       *)
(* text that is generated from it.                                         *)
(***************************************************************************)
\* the locals of an attempt that has ended
PubReturn ==
    /\ p_pc' = "idle"
    /\ p_validated' = <<>>
    /\ p_loaded' = <<>>
    /\ p_content' = <<>>
    /\ p_backup' = Absent

\* a request other than the apply commits: the database is another one
CommitElsewhere ==
    /\ \E db \in Contents \ {p_db} : p_db' = db
    /\ UNCHANGED <<p_pc, p_validated, p_loaded, p_content, p_backup, p_fs>>
    /\ UNCHANGED <<applyVars, allocVars, userVars, didVars, writerVars, genVars, scanVars>>

\* lines 86-101: session.commit() ends the transaction of the lock, then
\* validate_configuration runs its queries; the configuration is valid (or
\* force is set)
PubValidate ==
    /\ p_pc = "idle"
    /\ p_validated' = p_db
    /\ p_pc' = "load"
    /\ UNCHANGED <<p_db, p_loaded, p_content, p_backup, p_fs>>
    /\ UNCHANGED <<applyVars, allocVars, userVars, didVars, writerVars, genVars, scanVars>>

\* lines 103-172: step 3, the queries for users, tenants, DID assignments.
\* The session is READ COMMITTED (database.py sets no isolation level):
\* every statement reads what is committed when it runs
PubLoad ==
    /\ p_pc = "load"
    /\ p_loaded' = p_db
    /\ p_pc' = "backup"
    /\ UNCHANGED <<p_db, p_validated, p_content, p_backup, p_fs>>
    /\ UNCHANGED <<applyVars, allocVars, userVars, didVars, writerVars, genVars, scanVars>>

\* lines 174-180 and backup_configuration lines 143-156: the live file is
\* copied into the backup directory if it exists
PubBackup ==
    /\ p_pc = "backup"
    /\ p_backup' = p_fs["live"]
    /\ p_pc' = "generate"
    /\ UNCHANGED <<p_db, p_validated, p_loaded, p_content, p_fs>>
    /\ UNCHANGED <<applyVars, allocVars, userVars, didVars, writerVars, genVars, scanVars>>

\* lines 182-188: step 5
PubGenerate ==
    /\ p_pc = "generate"
    /\ p_content' = generate_config(p_loaded)
    /\ p_pc' = "write_text"
    /\ UNCHANGED <<p_db, p_validated, p_loaded, p_backup, p_fs>>
    /\ UNCHANGED <<applyVars, allocVars, userVars, didVars, writerVars, genVars, scanVars>>

\* line 196, temp_path.write_text(dialplan_config): the .tmp file is opened
\* for writing, empty
PubOpenTmp ==
    /\ p_pc = "write_text"
    /\ p_fs' = [p_fs EXCEPT !["tmp"] = <<>>]
    /\ p_pc' = "writing"
    /\ UNCHANGED <<p_db, p_validated, p_loaded, p_content, p_backup>>
    /\ UNCHANGED <<applyVars, allocVars, userVars, didVars, writerVars, genVars, scanVars>>

\* line 196: the text is written to it block after block
PubWriteBlock ==
    /\ p_pc = "writing"
    /\ Len(p_fs["tmp"]) < Len(p_content)
    /\ p_fs' = [p_fs EXCEPT !["tmp"] = Append(@, p_content[Len(@) + 1])]
    /\ UNCHANGED <<p_pc, p_db, p_validated, p_loaded, p_content, p_backup>>
    /\ UNCHANGED <<applyVars, allocVars, userVars, didVars, writerVars, genVars, scanVars>>

\* line 197, temp_path.replace(DIALPLAN_PATH): one rename
PubReplace ==
    /\ p_pc = "writing"
    /\ Len(p_fs["tmp"]) = Len(p_content)
    /\ p_fs' = [f \in {"live", "tmp"} |->
                   IF f = "live" THEN p_fs["tmp"] ELSE Absent]
    /\ p_pc' = "reload"
    /\ UNCHANGED <<p_db, p_validated, p_loaded, p_content, p_backup>>
    /\ UNCHANGED <<applyVars, allocVars, userVars, didVars, writerVars, genVars, scanVars>>

\* lines 199-219: the reload succeeded, the attempt ends
PubReloaded ==
    /\ p_pc = "reload"
    /\ PubReturn
    /\ UNCHANGED <<p_db, p_fs>>
    /\ UNCHANGED <<applyVars, allocVars, userVars, didVars, writerVars, genVars, scanVars>>

\* lines 203-206 and 221-227: the reload failed, or a step from the
\* generation on raised: rollback_configuration is called
PubFail ==
    /\ p_pc \in {"generate", "write_text", "writing", "reload"}
    /\ p_pc' = "rollback"
    /\ UNCHANGED <<p_db, p_validated, p_loaded, p_content, p_backup, p_fs>>
    /\ UNCHANGED <<applyVars, allocVars, userVars, didVars, writerVars, genVars, scanVars>>

\* rollback_configuration lines 181-188: without a file in the backup
\* nothing is restored; otherwise shutil.copy2(backup_file, config_file)
\* opens the live file itself for writing, which empties it
PubRestoreOpen ==
    /\ p_pc = "rollback"
    /\ IF p_backup = Absent
       THEN /\ PubReturn
            /\ UNCHANGED <<p_db, p_fs>>
       ELSE /\ p_pc' = "copying"
            /\ p_fs' = [p_fs EXCEPT !["live"] = <<>>]
            /\ UNCHANGED <<p_db, p_validated, p_loaded, p_content, p_backup>>
    /\ UNCHANGED <<applyVars, allocVars, userVars, didVars, writerVars, genVars, scanVars>>

\* shutil.copy2: the backup is copied into the live file block after block
PubCopyBlock ==
    /\ p_pc = "copying"
    /\ Len(p_fs["live"]) < Len(p_backup)
    /\ p_fs' = [p_fs EXCEPT !["live"] = Append(@, p_backup[Len(@) + 1])]
    /\ UNCHANGED <<p_pc, p_db, p_validated, p_loaded, p_content, p_backup>>
    /\ UNCHANGED <<applyVars, allocVars, userVars, didVars, writerVars, genVars, scanVars>>

\* the copy is complete, the attempt ends
PubRestored ==
    /\ p_pc = "copying"
    /\ Len(p_fs["live"]) >= Len(p_backup)
    /\ p_fs' = [p_fs EXCEPT !["live"] = p_backup]
    /\ PubReturn
    /\ UNCHANGED p_db
    /\ UNCHANGED <<applyVars, allocVars, userVars, didVars, writerVars, genVars, scanVars>>

NextPublish ==
    \/ CommitElsewhere
    \/ PubValidate
    \/ PubLoad
    \/ PubBackup
    \/ PubGenerate
    \/ PubOpenTmp
    \/ PubWriteBlock
    \/ PubReplace
    \/ PubReloaded
    \/ PubFail
    \/ PubRestoreOpen
    \/ PubCopyBlock
    \/ PubRestored

SpecPublish == Init /\ [][NextPublish]_vars

\* the steps of an attempt between its backup and its end
Publishing == {"write_text", "writing", "reload", "rollback", "copying"}

\* C34: from the backup to the end of an attempt, its rollback included, a
\* reader of the live file finds the complete file of before the attempt or
\* the complete new file, never a part of either.
C34_LiveFileAlwaysWhole ==
    p_pc \in Publishing => p_fs["live"] \in {p_backup, p_content}

\* the publish itself is one rename: up to the rollback the live file is
\* the old or the new one
PublishIsOneRename ==
    p_pc \in {"write_text", "writing", "reload"}
        => p_fs["live"] \in {p_backup, p_content}

\* C35: the configuration an apply has published is the one that is
\* generated from the database its validator has read: what other requests
\* commit between the validation and the load is not in it.
C35_PublishedWhatWasValidated ==
    p_pc = "reload" => p_fs["live"] = generate_config(p_validated)

\* what is published: the database as committed when step 3 ran its
\* queries, validated or not
PublishedWhatWasLoaded ==
    p_pc = "reload" => p_fs["live"] = generate_config(p_loaded)

(***************************************************************************)
(* allocate_extension: scan for the minimum unused number, insert, retry   *)
(***************************************************************************)
\* Config.EXTENSION_MIN
EXTENSION_MIN == 1000
\* Config.EXTENSION_MAX (1999 in the program)
EXTENSION_MAX == EXTENSION_MIN + MaxPool - 1
\* the default of the parameter max_retries
max_retries == 5
ScanUsers == 1..NumScanUsers

\* a row of table extensions
Extension(number, user_id) == [number |-> number, user_id |-> user_id]

RECURSIVE MinOf(_)
MinOf(S) ==
    LET x == CHOOSE y \in S : TRUE
    IN IF S = {x} THEN x
       ELSE LET m == MinOf(S \ {x}) IN IF x < m THEN x ELSE m

\* SELECT MIN(candidate.number) FROM generate_series(:start, :end)
\* LEFT JOIN extensions ... WHERE extensions.number IS NULL
available_extension(rows) ==
    LET unused == {n \in EXTENSION_MIN..EXTENSION_MAX :
                     \A r \in rows : r.number # n}
    IN IF unused = {} THEN NoExtension ELSE MinOf(unused)

\* if attempt == max_retries - 1  (changed: the last attempt is not seen)
last_attempt_unnoticed(attempt) == FALSE

\* if attempt == max_retries - 1
last_attempt(attempt) == attempt = max_retries - 1

\* the rows other sessions have flushed and not committed yet
PendingOfOthers(i) ==
    {Extension(s_pending[j], s_user[j]) :
        j \in {k \in Requests : k # i /\ s_pending[k] # NoExtension}}

\* UNIQUE (number), UNIQUE (user_id)
Conflicts(row, rows) ==
    \E r \in rows : r.number = row.number \/ r.user_id = row.user_id

\* a request calls allocate_extension(session, user_id): for attempt in
\* range(max_retries) starts with attempt = 0
ScanCall(i) ==
    /\ s_pc[i] = "idle"
    /\ \E user_id \in ScanUsers :
         s_user' = [s_user EXCEPT ![i] = user_id]
    /\ s_attempt' = [s_attempt EXCEPT ![i] = 0]
    /\ s_pc' = [s_pc EXCEPT ![i] = "scan"]
    /\ UNCHANGED <<extensions, s_number, s_pending, e_result>>
    /\ UNCHANGED <<applyVars, allocVars, userVars, didVars, writerVars,
                   genVars, pubVars>>

\* the top of the loop: the range is used up and the statement after the
\* loop raises, or the query runs on the committed rows and the function
\* raises ValueError when it returns NULL
ScanQuery(i) ==
    /\ s_pc[i] = "scan"
    /\ IF s_attempt[i] >= max_retries
       THEN /\ s_pc' = [s_pc EXCEPT ![i] = "unexpected"]
            /\ UNCHANGED s_number
       ELSE LET available_number == available_extension(extensions)
            IN /\ s_number' = [s_number EXCEPT ![i] = available_number]
               /\ s_pc' = [s_pc EXCEPT ![i] =
                             IF available_number = NoExtension
                             THEN "exhausted" ELSE "insert"]
    /\ UNCHANGED <<extensions, s_user, s_attempt, s_pending, e_result>>
    /\ UNCHANGED <<applyVars, allocVars, userVars, didVars, writerVars,
                   genVars, pubVars>>

\* session.add(extension); session.flush(): the INSERT waits while another
\* session holds an uncommitted row with the same number or user; then it
\* either stores the row and the function returns, or raises IntegrityError:
\* rollback, and raise RuntimeError on the last attempt or continue
ScanFlush(i) ==
    /\ s_pc[i] = "insert"
    /\ LET extension == Extension(s_number[i], s_user[i])
       IN /\ ~Conflicts(extension, PendingOfOthers(i))
          /\ IF Conflicts(extension, extensions)
             THEN /\ IF last_attempt(s_attempt[i])
                     THEN /\ s_pc' = [s_pc EXCEPT ![i] = "contention"]
                          /\ UNCHANGED s_attempt
                     ELSE /\ s_pc' = [s_pc EXCEPT ![i] = "scan"]
                          /\ s_attempt' = [s_attempt EXCEPT ![i] = @ + 1]
                  /\ UNCHANGED s_pending
             ELSE /\ s_pending' = [s_pending EXCEPT ![i] = s_number[i]]
                  /\ s_pc' = [s_pc EXCEPT ![i] = "returned"]
                  /\ UNCHANGED s_attempt
    /\ UNCHANGED <<extensions, s_user, s_number, e_result>>
    /\ UNCHANGED <<applyVars, allocVars, userVars, didVars, writerVars,
                   genVars, pubVars>>

\* the end of the request: the caller's session is done
ScanDone(i) ==
    /\ s_pc' = [s_pc EXCEPT ![i] = "idle"]
    /\ s_user' = [s_user EXCEPT ![i] = NoUser]
    /\ s_attempt' = [s_attempt EXCEPT ![i] = 0]
    /\ s_number' = [s_number EXCEPT ![i] = NoExtension]
    /\ s_pending' = [s_pending EXCEPT ![i] = NoExtension]
    /\ UNCHANGED e_result
    /\ UNCHANGED <<applyVars, allocVars, userVars, didVars, writerVars,
                   genVars, pubVars>>

\* the caller commits the row the function returned
CallerCommit(i) ==
    /\ s_pc[i] = "returned"
    /\ extensions' = extensions \cup {Extension(s_pending[i], s_user[i])}
    /\ ScanDone(i)

\* the caller rolls back, or the function has raised
CallerRollback(i) ==
    /\ s_pc[i] \in {"returned", "exhausted", "contention", "unexpected"}
    /\ UNCHANGED extensions
    /\ ScanDone(i)

\* a user is deleted: user_id ... ondelete="CASCADE"
DeleteUser(user_id) ==
    /\ \E r \in extensions : r.user_id = user_id
    /\ \A i \in Requests : s_user[i] # user_id
    /\ extensions' = {r \in extensions : r.user_id # user_id}
    /\ UNCHANGED <<s_pc, s_user, s_attempt, s_number, s_pending, e_result>>
    /\ UNCHANGED <<applyVars, allocVars, userVars, didVars, writerVars,
                   genVars, pubVars>>

NextScan ==
    \/ \E i \in Requests :
         \/ ScanCall(i)
         \/ ScanQuery(i)
         \/ ScanFlush(i)
         \/ CallerCommit(i)
         \/ CallerRollback(i)
    \/ \E user_id \in ScanUsers : DeleteUser(user_id)

SpecScan == Init /\ [][NextScan]_vars

\* every statement of a call completes, a waiting INSERT goes on when the
\* row it waits for is committed or rolled back, and every request ends
SpecScanFair ==
    /\ SpecScan
    /\ \A i \in Requests :
         /\ WF_vars(ScanQuery(i))
         /\ SF_vars(ScanFlush(i))
         /\ WF_vars(CallerCommit(i) \/ CallerRollback(i))

InCall(i) == s_pc[i] \in {"scan", "insert"}

\* C36: a call of allocate_extension ends within max_retries attempts, and
\* it ends in one of three ways: it returns an extension whose number lies in
\* the range and is no other row's, it raises the pool-exhausted ValueError,
\* or it raises the contention RuntimeError after the last attempt.
C36_ScanTerminates ==
    /\ \A i \in Requests :
         InCall(i) ~> s_pc[i] \in {"returned", "exhausted", "contention"}
    /\ [](\A i \in Requests :
            /\ s_pc[i] # "unexpected"
            /\ s_attempt[i] < max_retries
            /\ s_pc[i] = "contention" => s_attempt[i] = max_retries - 1
            /\ s_pc[i] = "returned" =>
                 /\ s_pending[i] \in EXTENSION_MIN..EXTENSION_MAX
                 /\ ~Conflicts(Extension(s_pending[i], s_user[i]),
                               extensions \cup PendingOfOthers(i)))

\* one call has raised the contention error after its fifth conflict, and
\* another has been handed a number
C36_Witness ==
    \E i \in Requests, j \in Requests :
        /\ s_pc[i] = "contention"
        /\ s_attempt[i] = max_retries - 1
        /\ s_pc[j] = "returned"

(***************************************************************************)
(* The same requests served by the cursor and by allocate_extension        *)
(***************************************************************************)
\* allocate_extension called while no other session allocates: the first
\* scan finds the minimum unused number or nothing; the flush stores the
\* row, or the user has a row already and every attempt conflicts
allocate_extension(rows, user_id) ==
    LET available_number == available_extension(rows)
        extension == Extension(available_number, user_id)
    IN IF available_number = NoExtension
       THEN [outcome |-> "ValueError", number |-> NoExtension, rows |-> rows]
       ELSE IF Conflicts(extension, rows)
            THEN [outcome |-> "RuntimeError", number |-> NoExtension,
                  rows |-> rows]
            ELSE [outcome |-> "ok", number |-> available_number,
                  rows |-> rows \cup {extension}]

\* one request for a new user of tenant t, served by both allocators from
\* their own pools: get_next_extension on the tenant's cursor, and
\* allocate_extension on table extensions
EquivAllocate(t) ==
    /\ tenants[t] # NoTenant
    /\ requests[t] < PoolSize(tenants[t]) + MaxExtraRequests
    /\ requests' = [requests EXCEPT ![t] = @ + 1]
    /\ LET r == get_next_extension(tenants[t])
           user_id == Cardinality(extensions) + 1
           s == allocate_extension(extensions, user_id)
       IN /\ tenants' = [tenants EXCEPT ![t] = r.self]
          /\ users' = IF r.raised THEN users
                      ELSE AddUser(users, User(t, r.extension))
          /\ result' = [tenant_id |-> t,
                        outcome |-> IF r.raised THEN "PoolExhausted"
                                    ELSE "ok",
                        extension |-> r.extension]
          /\ extensions' = s.rows
          /\ e_result' = [tenant_id |-> t, pointer |-> r.extension,
                          scan |-> s.number]
    /\ UNCHANGED <<s_pc, s_user, s_attempt, s_number, s_pending>>
    /\ UNCHANGED <<applyVars, userVars, didVars, writerVars, genVars,
                   pubVars>>

NextEquiv ==
    \/ \E t \in TenantIds : CreateTenant(t)
    \/ \E t \in TenantIds : EquivAllocate(t)

SpecEquiv == Init /\ [][NextEquiv]_vars

\* the tenant's range is the range allocate_extension scans
ConfiguredRange(t) ==
    /\ tenants[t].ext_min = EXTENSION_MIN
    /\ tenants[t].ext_max = EXTENSION_MAX

\* C37: started from the same empty pool (the tenant's range is the range
\* the scan uses) and given the same requests, the scan-based and the
\* pointer-based allocator return the same number for every request and
\* report pool exhaustion (no number) at the same request.
C37_AllocatorsEquivalent ==
    \A t \in TenantIds :
        (e_result.tenant_id = t /\ ConfiguredRange(t)) =>
            e_result.scan = e_result.pointer

\* the two agree while the requests are all for one tenant with that range
EquivalentForOneTenant ==
    \A t \in TenantIds :
        (/\ e_result.tenant_id = t
         /\ ConfiguredRange(t)
         /\ \A u \in TenantIds \ {t} : requests[u] = 0) =>
            e_result.scan = e_result.pointer

(***************************************************************************)
(* An apply scoped to one tenant after an apply of everything              *)
(***************************************************************************)
\* [x for x in rows if x.tenant_id == tenant_id], on a list of tenant ids
OfTenant(rows, tenant_id) ==
    LET Test(x) == x = tenant_id IN SelectSeq(rows, Test)

\* [u for u in users if u.tenant_id == tenant_id]
UsersOfTenant(rows, tenant_id) ==
    LET Test(u) == u.tenant_id = tenant_id IN SelectSeq(rows, Test)

\* apply_configuration_safe(session, actor_id, tenant_id) for a tenant of
\* the database the last apply has published: lines 117-121 keep the users, the tenants
\* and the DID assignments of tenant_id, lines 184-197 generate the file
\* from them and replace the published file with it
ApplyForTenant(tenant_id) ==
    /\ g_caller = "apply"
    /\ \E j \in DOMAIN g_db.tenants : g_db.tenants[j] = tenant_id
    /\ LET user_data_list == UsersOfTenant(g_db.users, tenant_id)
           tenants_data == OfTenant(g_db.tenants, tenant_id)
           did_data_list == did_assignments_data(
                                OfTenant(g_db.did_assignments, tenant_id))
       IN /\ g_args' = [users_with_extensions |-> Arg(TRUE, user_data_list),
                        dids |-> None, policies |-> None,
                        tenants |-> Arg(TRUE, tenants_data),
                        did_assignments |-> Arg(TRUE, did_data_list)]
          /\ g_config' = DialplanGenerator_generate_config(
                             Arg(TRUE, user_data_list), None, None,
                             Arg(TRUE, tenants_data),
                             Arg(TRUE, did_data_list))
    /\ g_caller' = "scoped"
    /\ g_scope' = tenant_id
    /\ g_before' = g_config
    /\ UNCHANGED g_db
    /\ UNCHANGED <<applyVars, allocVars, userVars, didVars, writerVars,
                   pubVars, scanVars>>

NextScoped ==
    \/ GenerateForApply
    \/ \E tenant_id \in TenantIds : ApplyForTenant(tenant_id)

SpecScoped == Init /\ [][NextScoped]_vars

\* the routing sections of the tenants other than tenant_id in a text
RoutingOfOthers(config, tenant_id) ==
    LET Test(b) == b.section = "internal" /\ b.tenant # tenant_id
    IN SelectSeq(config, Test)

\* the inbound DID rules of a text
InboundRules(config) ==
    LET Test(b) == b.section = "from-trunk" /\ b.pattern = "did"
    IN SelectSeq(config, Test)

DidsOfOthers(tenant_id) ==
    LET Test(x) == x # tenant_id IN SelectSeq(g_db.did_assignments, Test)

\* C40: after an apply scoped to one tenant, the routing sections the
\* earlier apply published for the other tenants are in the published file
\* unchanged, and so are the inbound rules of the other tenants' numbers.
C40_OtherTenantsUntouched ==
    g_caller = "scoped" =>
        /\ RoutingOfOthers(g_config, g_scope)
              = RoutingOfOthers(g_before, g_scope)
        /\ Len(InboundRules(g_config)) >= Len(DidsOfOthers(g_scope))

\* what the scoped apply publishes is the routing of its tenant alone
ScopedApplyPublishesOneTenant ==
    g_caller = "scoped" =>
        /\ RoutingOfOthers(g_config, g_scope) = <<>>
        /\ Len(InboundRules(g_config))
              = Len(OfTenant(g_db.did_assignments, g_scope))

====
